---- MODULE Spec2Model ----
(***************************************************************************)
(* State-machine model of the medication diary (Angular signals app):      *)
(*   DataService         - the signals holding the application data, the   *)
(*                         CRUD methods, export / import / reset and the   *)
(*                         local-storage persistence,                      *)
(*   LockService         - the PIN / biometric app lock,                   *)
(*   SettingsComponent   - the security settings and the import dialog,    *)
(*   NotificationService - the synchronisation of system notifications,    *)
(*   UiService           - the stack of CRUD forms.                        *)
(*                                                                         *)
(* Conventions.                                                            *)
(*  - A JavaScript object is a TLA+ record (a function on strings).  A     *)
(*    property whose value is undefined is modelled as a missing key:      *)
(*    every read the program makes (o.k, o.k?.includes, o.k || d,          *)
(*    JSON.stringify, spread) gives the same result for both.              *)
(*  - A JavaScript array is a sequence.                                    *)
(*  - A handler is one action.  The Angular effects that the handler's     *)
(*    signal writes trigger (save to local storage, unlock when the lock   *)
(*    is disabled, start a notification sync) are flushed before the next  *)
(*    event is handled, so they are part of the action (Commit).  What     *)
(*    follows an await is a separate action.                               *)
(*  - An id is a number: the base-36 string of generateId read as a        *)
(*    base-36 numeral: Date.now() * 36 + one random base-36 digit.         *)
(***************************************************************************)
EXTENDS Integers, Sequences, FiniteSets, TLC

VARIABLES
  ds,                    \* DataService: one field per state signal
  language,              \* TranslationService.language
  localStorage,          \* window.localStorage: key -> text (NoItem, Null: none)
  now,                   \* Date.now()
  idCount,               \* number of generateId calls so far
  lastOp,                \* the handler that ran last ("data": a CRUD method of
                         \* DataService), its result and its text input / output
  isLocked,              \* LockService.isLocked
  backgroundedAt,        \* LockService.backgroundedAt (0: null, both are falsy)
  isVerifyingBiometrics, \* LockService.isVerifyingBiometrics
  isBiometricsAvailable, \* LockService.isBiometricsAvailable
  availabilityPending,   \* NativeBiometric.isAvailable() has not resolved yet
  verifyCalls,           \* NativeBiometric.verifyIdentity() calls not settled yet
  dialog,                \* the biometric prompt and the events it still sends
  currentPage,           \* AppComponent.currentPage
  showPinModal,          \* SettingsComponent.showPinModal
  pinModalMode,          \* SettingsComponent.pinModalMode
  isNative,              \* Capacitor.isNativePlatform()
  permission,            \* notification permission of the platform
  pending,               \* LocalNotifications: id -> scheduled notification
  syncs,                 \* syncNotifications calls that await a plugin call
  webTimeoutIds,         \* NotificationService.webTimeoutIds
  formStack,             \* UiService.formStack
  forms,                 \* UiService: the form model signals, by entity type
  diaryForm              \* DiaryEntryFormComponent: its input and its form signals

dataVars  == <<ds, language, localStorage, now, idCount, lastOp>>
lockVars  == <<isLocked, backgroundedAt, isVerifyingBiometrics, isBiometricsAvailable,
               availabilityPending, verifyCalls, dialog, currentPage>>
pinVars   == <<showPinModal, pinModalMode>>
notifVars == <<isNative, permission, pending, syncs, webTimeoutIds>>
uiVars    == <<formStack, forms, diaryForm>>
vars == <<dataVars, lockVars, pinVars, notifVars, uiVars>>

(***************************************************************************)
(* Bounds of the model.                                                    *)
(***************************************************************************)
MaxIds == 3          \* generateId calls in one run
MaxSyncs == 2        \* syncNotifications calls awaiting at the same time
MaxStack == 1        \* sub-forms opened on top of a main form
MaxVerify == 2       \* verifyIdentity calls awaiting at the same time

(***************************************************************************)
(* JavaScript values.                                                      *)
(***************************************************************************)
Null == "null"                       \* null, where a string may stand

Has(o, k) == k \in DOMAIN o          \* o.k !== undefined
Omit(o, k) == [f \in (DOMAIN o) \ {k} |-> o[f]]
\* { ...a, ...b }
Spread(a, b) == b @@ a
\* { ...o, [k]: src[k] }, where src[k] may be undefined
CopyField(o, src, k) == IF Has(src, k) THEN (k :> src[k]) @@ o ELSE Omit(o, k)

Range(seq) == {seq[i] : i \in 1..Len(seq)}
MapSeq(seq, F(_)) == [i \in 1..Len(seq) |-> F(seq[i])]
Includes(seq, x) == x \in Range(seq)
Ids(items) == {items[i].id : i \in 1..Len(items)}
FilterOutId(items, id) == SelectSeq(items, LAMBDA i : i.id # id)
Without(seq, x) == SelectSeq(seq, LAMBDA y : y # x)
\* items.map(i => i.id === updated.id ? updated : i)
ReplaceById(items, updated) ==
  MapSeq(items, LAMBDA i : IF i.id = updated.id THEN updated ELSE i)

\* All sequences without repetition over a set, in increasing order of the
\* elements (the order in which a list of checkboxes yields the selection).
RECURSIVE SortedSeq(_)
SortedSeq(S) ==
  IF S = {} THEN <<>>
  ELSE LET m == CHOOSE x \in S : \A y \in S : x <= y
       IN <<m>> \o SortedSeq(S \ {m})

(***************************************************************************)
(* JSON.  A text is either not JSON at all, or the JSON document of a      *)
(* value; JSON.parse of the latter gives the value back.  The values that  *)
(* the program stringifies hold strings, finite numbers, booleans, null,   *)
(* arrays and objects only, and undefined properties are missing keys      *)
(* already, so the document of a value is determined by the value.         *)
(***************************************************************************)
JsonStringify(v) == [kind |-> "json", value |-> v]
JsonValid(text) == text.kind = "json"
JsonParse(text) == text.value
JsonNullValue == [isNull |-> TRUE]             \* the value of the text "null"
IsJsonNull(v) == Has(v, "isNull")
InvalidJsonText == [kind |-> "garbage"]        \* JSON.parse throws on it
NullJsonText == JsonStringify(JsonNullValue)
NoItem == [kind |-> "none"]                    \* getItem of a key never set: null

\* o.k || d for a property holding an array or an object (truthy if present)
OrDefault(o, k, d) == IF Has(o, k) THEN o[k] ELSE d
\* o.k || d for a property holding a string ("" is falsy)
StrOrDefault(o, k, d) == IF Has(o, k) /\ o[k] # "" /\ o[k] # Null THEN o[k] ELSE d

(***************************************************************************)
(* DataService: initial values of the signals.                             *)
(***************************************************************************)
StorageKey == "medikamententagebuch"
LangKey == "med-diary-lang"

DefaultLockSettings == [isEnabled |-> FALSE, pin |-> Null, timeout |-> 0]

DefaultModuleSettings ==
  [showMood |-> TRUE, showDosage |-> TRUE, showSymptoms |-> TRUE,
   showActivities |-> TRUE, showEffects |-> TRUE, showNote |-> TRUE,
   showDateGaps |-> TRUE, showIngredients |-> TRUE]

\* The language-specific default lists, cut to their first element.
DefaultMoods(lang) ==
  << [id |-> 1, emoji |-> "m", description |-> IF lang = "de" THEN "Gut" ELSE "Good"] >>
DefaultEffects(lang) ==
  << [id |-> 1, emoji |-> "e", perception |-> "positive",
      description |-> IF lang = "de" THEN "Belebend" ELSE "Energizing"] >>
DefaultSymptoms(lang) ==
  << [id |-> 1, emoji |-> "s", description |-> IF lang = "de" THEN "Schmerz" ELSE "Pain"] >>
DefaultActivities(lang) ==
  << [id |-> 1, emoji |-> "a", description |-> IF lang = "de" THEN "Sport" ELSE "Sports"] >>

\* The field initialisers of DataService.
InitialSignals ==
  [theme |-> "light",
   lockSettings |-> DefaultLockSettings,
   moduleSettings |-> DefaultModuleSettings,
   moods |-> <<>>, effects |-> <<>>, symptoms |-> <<>>, activities |-> <<>>,
   manufacturers |-> <<>>, dosages |-> <<>>, activeIngredients |-> <<>>,
   preparations |-> <<>>, ingredients |-> <<>>, diaryEntries |-> <<>>,
   reminders |-> <<>>, customEmojis |-> <<>>]

(***************************************************************************)
(* DataService: persistence.                                               *)
(***************************************************************************)
\* loadFromLocalStorage, as a function of the stored text and the language
LoadFromLocalStorage_EmptyIsDefault(data, lang) ==
  IF data = NoItem
  THEN [InitialSignals EXCEPT
          !.moods = DefaultMoods(lang), !.effects = DefaultEffects(lang),
          !.symptoms = DefaultSymptoms(lang), !.activities = DefaultActivities(lang)]
  ELSE
    LET parsedData == JsonParse(data)
        OrElse(k, d) == IF Has(parsedData, k) /\ parsedData[k] # <<>> THEN parsedData[k] ELSE d
    IN [theme |-> StrOrDefault(parsedData, "theme", "light"),
        lockSettings |-> OrDefault(parsedData, "lockSettings", DefaultLockSettings),
        moduleSettings |->
          Spread(DefaultModuleSettings, OrDefault(parsedData, "moduleSettings", <<>>)),
        moods |-> OrElse("moods", DefaultMoods(lang)),
        effects |-> OrElse("effects", DefaultEffects(lang)),
        symptoms |-> OrElse("symptoms", DefaultSymptoms(lang)),
        activities |-> OrElse("activities", DefaultActivities(lang)),
        manufacturers |-> OrDefault(parsedData, "manufacturers", <<>>),
        dosages |-> OrDefault(parsedData, "dosages", <<>>),
        activeIngredients |-> OrDefault(parsedData, "activeIngredients", <<>>),
        preparations |-> OrDefault(parsedData, "preparations", <<>>),
        ingredients |-> OrDefault(parsedData, "ingredients", <<>>),
        diaryEntries |-> OrDefault(parsedData, "diaryEntries", <<>>),
        reminders |-> OrDefault(parsedData, "reminders", <<>>),
        customEmojis |-> OrDefault(parsedData, "customEmojis", <<>>)]

LoadFromLocalStorage(data, lang) ==
  IF data = NoItem
  THEN [InitialSignals EXCEPT
          !.moods = DefaultMoods(lang), !.effects = DefaultEffects(lang),
          !.symptoms = DefaultSymptoms(lang), !.activities = DefaultActivities(lang)]
  ELSE
    LET parsedData == JsonParse(data)
    IN [theme |-> StrOrDefault(parsedData, "theme", "light"),
        lockSettings |-> OrDefault(parsedData, "lockSettings", DefaultLockSettings),
        moduleSettings |->
          Spread(DefaultModuleSettings, OrDefault(parsedData, "moduleSettings", <<>>)),
        moods |-> OrDefault(parsedData, "moods", DefaultMoods(lang)),
        effects |-> OrDefault(parsedData, "effects", DefaultEffects(lang)),
        symptoms |-> OrDefault(parsedData, "symptoms", DefaultSymptoms(lang)),
        activities |-> OrDefault(parsedData, "activities", DefaultActivities(lang)),
        manufacturers |-> OrDefault(parsedData, "manufacturers", <<>>),
        dosages |-> OrDefault(parsedData, "dosages", <<>>),
        activeIngredients |-> OrDefault(parsedData, "activeIngredients", <<>>),
        preparations |-> OrDefault(parsedData, "preparations", <<>>),
        ingredients |-> OrDefault(parsedData, "ingredients", <<>>),
        diaryEntries |-> OrDefault(parsedData, "diaryEntries", <<>>),
        reminders |-> OrDefault(parsedData, "reminders", <<>>),
        customEmojis |-> OrDefault(parsedData, "customEmojis", <<>>)]

\* saveToLocalStorage: the text stored under StorageKey for the signals s
SaveToLocalStorage(s) ==
  JsonStringify(
    [theme |-> s.theme, lockSettings |-> s.lockSettings,
     moduleSettings |-> s.moduleSettings,
     moods |-> s.moods, effects |-> s.effects, symptoms |-> s.symptoms,
     activities |-> s.activities, manufacturers |-> s.manufacturers,
     dosages |-> s.dosages, activeIngredients |-> s.activeIngredients,
     preparations |-> s.preparations, ingredients |-> s.ingredients,
     diaryEntries |-> s.diaryEntries, reminders |-> s.reminders,
     customEmojis |-> s.customEmojis])

\* TranslationService.getInitialLanguage (the browser language is an input)
GetInitialLanguage(storedLang, browserLang) ==
  IF storedLang \in {"de", "en"} THEN storedLang
  ELSE IF browserLang \in {"de", "en"} THEN browserLang
  ELSE "en"

(***************************************************************************)
(* DataService: ids.  generateId is Date.now().toString(36) followed by    *)
(* the base-36 digits of Math.random().  The clock of the model is short   *)
(* enough for its base-36 numeral to keep one length, and the random       *)
(* suffix is one digit that differs from call to call (two calls of        *)
(* Math.random() giving the same digits is not modelled).                  *)
(***************************************************************************)
IdRadix == 36
NowStart == 1000 * IdRadix * IdRadix

GenerateIdAt(t, n) == t * IdRadix + n
GenerateId == GenerateIdAt(now, idCount)
CanGenerateId == idCount < MaxIds /\ idCount < IdRadix

(***************************************************************************)
(* DataService: CRUD methods, as functions of the signals s.               *)
(***************************************************************************)
\* addItem / addDiaryEntry / addReminder: [...items, { ...item, id }]
AddItemFn_Twice(s, coll, item, id) ==
  [s EXCEPT ![coll] = Append(Append(@, Spread(item, [id |-> id])), Spread(item, [id |-> id]))]
AddItemFn(s, coll, item, id) ==
  [s EXCEPT ![coll] = Append(@, Spread(item, [id |-> id]))]

\* updateItem / updateDiaryEntry
UpdateItemFn_Propagate(s, coll, updatedItem) ==
  [s EXCEPT
     ![coll] = ReplaceById(@, updatedItem),
     !.diaryEntries =
        IF coll = "moods"
        THEN MapSeq(@, LAMBDA entry :
                         IF Has(entry, "mood") /\ entry.mood.id = updatedItem.id
                         THEN [entry EXCEPT !.mood = updatedItem] ELSE entry)
        ELSE @]
UpdateItemFn(s, coll, updatedItem) ==
  [s EXCEPT ![coll] = ReplaceById(@, updatedItem)]

\* deleteDiaryEntry / deleteReminder
RemoveByIdFn(s, coll, id) == [s EXCEPT ![coll] = FilterOutId(@, id)]

\* updatePreparation: the preparation, then the ingredientIds of every
\* diary entry that uses it
UpdatePreparationFn(s, updatedPrep) ==
  [s EXCEPT
     !.preparations = ReplaceById(@, updatedPrep),
     !.diaryEntries =
        MapSeq(@, LAMBDA entry :
          IF Has(entry, "preparationId") /\ entry.preparationId = updatedPrep.id
          THEN CopyField(entry, updatedPrep, "ingredientIds")
          ELSE entry)]

\* x.k?.includes(id) ? { ...x, k: rest.length > 0 ? rest : undefined } : x
UnlinkFromList(x, k, id) ==
  IF Has(x, k) /\ Includes(x[k], id)
  THEN LET rest == Without(x[k], id)
       IN IF Len(rest) > 0 THEN [x EXCEPT ![k] = rest] ELSE Omit(x, k)
  ELSE x

\* x.k === id ? { ...x, k: undefined } : x
UnlinkField(x, k, id) == IF Has(x, k) /\ x[k] = id THEN Omit(x, k) ELSE x

EntityTypes ==
  {"Mood", "Effect", "Symptom", "Activity", "Manufacturer", "Dosage",
   "ActiveIngredient", "Preparation", "Ingredient", "CustomEmoji"}

CollectionOf(entityType) ==
  CASE entityType = "Mood" -> "moods"
    [] entityType = "Effect" -> "effects"
    [] entityType = "Symptom" -> "symptoms"
    [] entityType = "Activity" -> "activities"
    [] entityType = "Manufacturer" -> "manufacturers"
    [] entityType = "Dosage" -> "dosages"
    [] entityType = "ActiveIngredient" -> "activeIngredients"
    [] entityType = "Preparation" -> "preparations"
    [] entityType = "Ingredient" -> "ingredients"
    [] entityType = "CustomEmoji" -> "customEmojis"

\* deleteItem
DeleteItemFn(s, entityType, id) ==
  CASE entityType = "Mood" -> [s EXCEPT !.moods = FilterOutId(@, id)]
    [] entityType = "Effect" -> [s EXCEPT !.effects = FilterOutId(@, id)]
    [] entityType = "Symptom" ->
         [s EXCEPT
            !.symptoms = FilterOutId(@, id),
            !.diaryEntries = MapSeq(@, LAMBDA entry : UnlinkFromList(entry, "symptomIds", id))]
    [] entityType = "Activity" ->
         [s EXCEPT
            !.activities = FilterOutId(@, id),
            !.diaryEntries = MapSeq(@, LAMBDA entry : UnlinkFromList(entry, "activityIds", id))]
    [] entityType = "Manufacturer" ->
         [s EXCEPT
            !.manufacturers = FilterOutId(@, id),
            !.preparations = MapSeq(@, LAMBDA prep : UnlinkField(prep, "manufacturerId", id))]
    [] entityType = "Dosage" ->
         [s EXCEPT
            !.dosages = FilterOutId(@, id),
            !.preparations = MapSeq(@, LAMBDA prep : UnlinkField(prep, "dosageId", id))]
    [] entityType = "ActiveIngredient" ->
         [s EXCEPT
            !.activeIngredients = FilterOutId(@, id),
            !.preparations = MapSeq(@, LAMBDA prep : UnlinkField(prep, "activeIngredientId", id))]
    [] entityType = "Preparation" ->
         [s EXCEPT
            !.preparations = FilterOutId(@, id),
            !.diaryEntries = MapSeq(@, LAMBDA entry : UnlinkField(entry, "preparationId", id))]
    [] entityType = "Ingredient" ->
         [s EXCEPT
            !.ingredients = FilterOutId(@, id),
            !.preparations = MapSeq(@, LAMBDA prep : UnlinkFromList(prep, "ingredientIds", id))]
    [] entityType = "CustomEmoji" -> [s EXCEPT !.customEmojis = Without(@, id)]

\* toggleTheme
ToggleThemeFn(s) == [s EXCEPT !.theme = IF @ = "light" THEN "dark" ELSE "light"]

(***************************************************************************)
(* DataService: export, import, reset.                                     *)
(***************************************************************************)
\* exportData with the PIN left in the lock settings
ExportData_WithPin(s, lang) ==
  JsonStringify(
    [theme |-> s.theme, language |-> lang,
     lockSettings |-> s.lockSettings,
     moduleSettings |-> s.moduleSettings,
     moods |-> s.moods, effects |-> s.effects, symptoms |-> s.symptoms,
     activities |-> s.activities, manufacturers |-> s.manufacturers,
     dosages |-> s.dosages, activeIngredients |-> s.activeIngredients,
     preparations |-> s.preparations, ingredients |-> s.ingredients,
     diaryEntries |-> s.diaryEntries, reminders |-> s.reminders,
     customEmojis |-> s.customEmojis])

\* exportData: const { pin, ...safeLockSettings } = this.lockSettings()
ExportData(s, lang) ==
  JsonStringify(
    [theme |-> s.theme, language |-> lang,
     lockSettings |-> Omit(s.lockSettings, "pin"),
     moduleSettings |-> s.moduleSettings,
     moods |-> s.moods, effects |-> s.effects, symptoms |-> s.symptoms,
     activities |-> s.activities, manufacturers |-> s.manufacturers,
     dosages |-> s.dosages, activeIngredients |-> s.activeIngredients,
     preparations |-> s.preparations, ingredients |-> s.ingredients,
     diaryEntries |-> s.diaryEntries, reminders |-> s.reminders,
     customEmojis |-> s.customEmojis])

\* !!currentPin
PinTruthy(pin) == pin # Null /\ pin # ""

\* The lock settings importData stores, from the imported ones and the
\* PIN of this device - here with the lock enabled whenever the backup says so
ImportedLockSettings_KeepEnabled(importedSettings, currentPin) ==
  LET shouldBeEnabled == Has(importedSettings, "isEnabled") /\ importedSettings.isEnabled = TRUE
  IN [isEnabled |-> shouldBeEnabled,
      pin |-> IF shouldBeEnabled /\ PinTruthy(currentPin) THEN currentPin ELSE Null,
      timeout |-> OrDefault(importedSettings, "timeout", 0)]

\* ... with the timeout of the backup dropped
ImportedLockSettings_DefaultTimeout(importedSettings, currentPin) ==
  LET shouldBeEnabled ==
        /\ Has(importedSettings, "isEnabled")
        /\ importedSettings.isEnabled = TRUE
        /\ PinTruthy(currentPin)
  IN [isEnabled |-> shouldBeEnabled,
      pin |-> IF shouldBeEnabled THEN currentPin ELSE Null,
      timeout |-> 0]

ImportedLockSettings(importedSettings, currentPin) ==
  LET shouldBeEnabled ==
        /\ Has(importedSettings, "isEnabled")
        /\ importedSettings.isEnabled = TRUE
        /\ PinTruthy(currentPin)
  IN [isEnabled |-> shouldBeEnabled,
      pin |-> IF shouldBeEnabled THEN currentPin ELSE Null,
      timeout |-> OrDefault(importedSettings, "timeout", 0)]   \* timeout ?? 0

\* importData's catch block: false is returned, no signal was written
ImportFailed_ThemeWritten(s, lang) ==
  [ok |-> FALSE, ds |-> [s EXCEPT !.theme = "light"], language |-> lang]
ImportFailed(s, lang) == [ok |-> FALSE, ds |-> s, language |-> lang]

\* importData: [ok, ds, language] - the return value and the state it leaves.
\* JSON.parse throws on a text that is no JSON, and data.theme throws on
\* the value null; both before the first signal is written.
ImportDataFn(s, lang, json) ==
  IF ~JsonValid(json) THEN ImportFailed(s, lang)
  ELSE
    LET data == JsonParse(json) IN
    IF IsJsonNull(data) THEN ImportFailed(s, lang)
    ELSE
      [ok |-> TRUE,
       language |->
         IF Has(data, "language") /\ data.language \in {"en", "de"}
         THEN data.language ELSE lang,
       ds |->
         [theme |-> StrOrDefault(data, "theme", "light"),
          lockSettings |->
            ImportedLockSettings(OrDefault(data, "lockSettings", <<>>), s.lockSettings.pin),
          moduleSettings |->
            Spread(DefaultModuleSettings, OrDefault(data, "moduleSettings", <<>>)),
          moods |-> OrDefault(data, "moods", <<>>),
          effects |-> OrDefault(data, "effects", <<>>),
          symptoms |-> OrDefault(data, "symptoms", <<>>),
          activities |-> OrDefault(data, "activities", <<>>),
          manufacturers |-> OrDefault(data, "manufacturers", <<>>),
          dosages |-> OrDefault(data, "dosages", <<>>),
          activeIngredients |-> OrDefault(data, "activeIngredients", <<>>),
          preparations |-> OrDefault(data, "preparations", <<>>),
          ingredients |-> OrDefault(data, "ingredients", <<>>),
          diaryEntries |-> OrDefault(data, "diaryEntries", <<>>),
          reminders |-> OrDefault(data, "reminders", <<>>),
          customEmojis |-> OrDefault(data, "customEmojis", <<>>)]]

\* resetToDefaults
ResetToDefaultsFn(lang) ==
  [InitialSignals EXCEPT
     !.moods = DefaultMoods(lang), !.effects = DefaultEffects(lang),
     !.symptoms = DefaultSymptoms(lang), !.activities = DefaultActivities(lang)]

(***************************************************************************)
(* NotificationService: what a sync schedules.                             *)
(***************************************************************************)
\* parseInt(reminder.id.substring(0, 6), 36) + day: the id string starts
\* with the 8 base-36 digits of Date.now(), so its first 6 characters are
\* the clock value without its last two digits.
NotificationId(reminderId, day) == (reminderId \div (IdRadix * IdRadix * IdRadix)) + day

\* notificationsToSchedule, in the order of the two loops
RECURSIVE NotificationsFor(_)
NotificationsFor(reminders) ==
  IF reminders = <<>> THEN <<>>
  ELSE LET reminder == Head(reminders)
       IN MapSeq(reminder.days, LAMBDA day :
            [id |-> NotificationId(reminder.id, day), weekday |-> day,
             time |-> reminder.time, reminderId |-> reminder.id])
          \o NotificationsFor(Tail(reminders))

\* Date, for a clock that shows local time in a zone without daylight saving
\* time: the milliseconds of a day, getDay (0 = Sunday; day 0 of the clock
\* is a Thursday) and setHours(hour, minute, 0, 0)
DayMs == 1000 * 3600 * 24
GetDay(t) == ((t \div DayMs) + 4) % 7
SetHours(t, hour, minute) == (t \div DayMs) * DayMs + (hour * 60 + minute) * 60000

\* reminder.time.split(':').map(Number), on the times of the model
ParseTime(time) ==
  CASE time = "00:22" -> <<0, 22>>
    [] time = "08:00" -> <<8, 0>>
    [] time = "12:00" -> <<12, 0>>
    [] time = "23:59" -> <<23, 59>>

\* nextNotificationDate.getTime() <= now.getTime()
TimePassed_Strictly(nextTime, t) == nextTime < t
TimePassed(nextTime, t) == nextTime <= t

\* The delay of the timer for a reminder time and a weekday (1 = Sunday);
\* setDate moves the date by whole days
WebDelay(t, time, day) ==
  LET jsDay == day - 1
      nextNotificationDate == SetHours(t, ParseTime(time)[1], ParseTime(time)[2])
      difference == jsDay - GetDay(t)
      dayDifference == IF difference < 0
                          \/ (difference = 0 /\ TimePassed(nextNotificationDate, t))
                       THEN difference + 7 ELSE difference
  IN nextNotificationDate + dayDifference * DayMs - t

\* The web branch at the time t: one timer per reminder and selected weekday
\* with a delay above 0.  setAt is the time of the setTimeout call, fired
\* tells whether the callback has run
WebTimersFor(reminders, t) ==
  SelectSeq(MapSeq(NotificationsFor(reminders), LAMBDA n :
              [reminderId |-> n.reminderId, weekday |-> n.weekday, time |-> n.time,
               setAt |-> t, delay |-> WebDelay(t, n.time, n.weekday), fired |-> FALSE]),
            LAMBDA timer : timer.delay > 0)

\* syncNotifications up to its first await (native), or as a whole (web)
StartSync(reminders) == [pc |-> "checkPermissions", reminders |-> reminders]

(***************************************************************************)
(* The end of a handler: the signals are written, then the effects that    *)
(* read a written signal run.  wrote names the signals the handler set,    *)
(* as far as an effect other than the save effect reads them.              *)
(***************************************************************************)
\* LockService constructor, effect: unlock when the lock is disabled
LockEffect_KeepLocked(newDs, locked) == locked
LockEffect(newDs, locked) == IF ~newDs.lockSettings.isEnabled THEN FALSE ELSE locked

RunEffects(newDs, newLang, wrote, locked) ==
  /\ localStorage' = [localStorage EXCEPT
                        ![StorageKey] = SaveToLocalStorage(newDs),
                        ![LangKey] = newLang]
  /\ isLocked' = IF "lockSettings" \in wrote THEN LockEffect(newDs, locked) ELSE locked
  /\ IF "reminders" \in wrote
     THEN IF isNative
          THEN /\ Len(syncs) < MaxSyncs
               /\ syncs' = Append(syncs, StartSync(newDs.reminders))
               /\ webTimeoutIds' = webTimeoutIds
          ELSE /\ syncs' = syncs
               /\ webTimeoutIds' = IF permission = "granted"
                                   THEN WebTimersFor(newDs.reminders, now) ELSE <<>>
     ELSE UNCHANGED <<syncs, webTimeoutIds>>

\* result: the handler's name (op), whether it succeeded (ok), for exportData
\* the text returned (out), for importData the text given (json) and the lock
\* settings it found (before)
CommitWith(newDs, newLang, wrote, result) ==
  /\ ds' = newDs
  /\ language' = newLang
  /\ lastOp' = result
  /\ RunEffects(newDs, newLang, wrote, isLocked)

Commit(newDs, newLang, wrote, op, ok) ==
  CommitWith(newDs, newLang, wrote, [op |-> op, ok |-> ok])

\* What a DataService method leaves alone.
otherVars == <<now, backgroundedAt, isVerifyingBiometrics, isBiometricsAvailable,
               availabilityPending, verifyCalls, dialog, currentPage,
               isNative, permission, pending, formStack, forms, diaryForm>>
restVars == <<otherVars, showPinModal, pinModalMode>>

(***************************************************************************)
(* Application start: the constructors of TranslationService, DataService, *)
(* LockService, NotificationService, UiService and SettingsComponent, and  *)
(* the first run of their effects.                                         *)
(***************************************************************************)
EmptyStorage == (StorageKey :> NoItem) @@ (LangKey :> Null)

\* The diary entry form is not shown (DiaryListComponent.showForm is false)
ClosedDiaryForm == [open |-> FALSE]

EmptyForms ==
  [t \in {"Mood", "Effect", "Symptom", "Activity", "Manufacturer", "Dosage",
          "ActiveIngredient", "Preparation", "CustomEmoji"} |-> <<>>]

Construct(storage, browserLang, native, perm) ==
  LET lang == GetInitialLanguage(storage[LangKey], browserLang)
      loaded == LoadFromLocalStorage(storage[StorageKey], lang)
  IN /\ ds = loaded
     /\ language = lang
     /\ localStorage = [storage EXCEPT
                          ![StorageKey] = SaveToLocalStorage(loaded),
                          ![LangKey] = lang]
     /\ isLocked = loaded.lockSettings.isEnabled
     /\ backgroundedAt = 0
     /\ isVerifyingBiometrics = FALSE
     /\ isBiometricsAvailable = FALSE
     /\ availabilityPending = native
     /\ verifyCalls = 0
     /\ dialog = "none"
     /\ currentPage = "diary"
     /\ showPinModal = FALSE
     /\ pinModalMode = "create"
     /\ isNative = native
     /\ permission = perm
     /\ pending = <<>>
     /\ syncs = IF native THEN <<StartSync(loaded.reminders)>> ELSE <<>>
     /\ webTimeoutIds = IF ~native /\ perm = "granted"
                        THEN WebTimersFor(loaded.reminders, now) ELSE <<>>
     /\ formStack = <<>>
     /\ forms = EmptyForms
     /\ diaryForm = ClosedDiaryForm
     /\ lastOp = [op |-> "start", ok |-> TRUE]

\* The app is closed and started again on the same device.
Restart ==
  /\ LET lang == GetInitialLanguage(localStorage[LangKey], "de")
         loaded == LoadFromLocalStorage(localStorage[StorageKey], lang)
     IN /\ ds' = loaded
        /\ language' = lang
        /\ localStorage' = [localStorage EXCEPT
                              ![StorageKey] = SaveToLocalStorage(loaded),
                              ![LangKey] = lang]
        /\ isLocked' = loaded.lockSettings.isEnabled
        /\ syncs' = IF isNative THEN <<StartSync(loaded.reminders)>> ELSE <<>>
        /\ webTimeoutIds' = IF ~isNative /\ permission = "granted"
                            THEN WebTimersFor(loaded.reminders, now) ELSE <<>>
  /\ backgroundedAt' = 0
  /\ isVerifyingBiometrics' = FALSE
  /\ isBiometricsAvailable' = FALSE
  /\ availabilityPending' = isNative
  /\ verifyCalls' = 0
  /\ dialog' = "none"
  /\ currentPage' = "diary"
  /\ showPinModal' = FALSE
  /\ pinModalMode' = "create"
  /\ formStack' = <<>>
  /\ forms' = EmptyForms
  /\ diaryForm' = ClosedDiaryForm
  /\ lastOp' = [op |-> "start", ok |-> TRUE]
  /\ UNCHANGED <<now, idCount, isNative, permission, pending>>

(***************************************************************************)
(* The inputs of the DataService methods: what the forms of the app pass.  *)
(* Reference fields hold ids of entities that exist at the time of call.   *)
(***************************************************************************)
NewTexts == {"a"}
SimpleCollections ==
  {"moods", "effects", "symptoms", "activities", "manufacturers", "dosages",
   "activeIngredients", "ingredients"}

SimpleItem(coll, txt) ==
  CASE coll \in {"moods", "symptoms", "activities"} -> [emoji |-> "x", description |-> txt]
    [] coll = "effects" -> [emoji |-> "x", description |-> txt, perception |-> "neutral"]
    [] coll \in {"manufacturers", "ingredients"} -> [name |-> txt]
    [] coll = "dosages" -> [amount |-> 10, unit |-> txt]
    [] coll = "activeIngredients" -> [amount |-> "10", unit |-> txt]

\* An optional property: missing, or one of the values
Opt(k, values) == {<<>>} \cup {(k :> v) : v \in values}
\* An optional non-empty list of ids
OptIds(k, ids) == {<<>>} \cup {(k :> SortedSeq(T)) : T \in (SUBSET ids) \ {{}}}

PreparationInputs(s) ==
  { [name |-> "p"] @@ m @@ d @@ a @@ g :
      m \in Opt("manufacturerId", Ids(s.manufacturers)),
      d \in Opt("dosageId", Ids(s.dosages)),
      a \in Opt("activeIngredientId", Ids(s.activeIngredients)),
      g \in OptIds("ingredientIds", Ids(s.ingredients)) }

\* DiaryEntryFormComponent.save: the entry built from the form.  The mood,
\* the effects and the dosage are copies.  Of the effects, symptoms and
\* activities either none or all are selected, the dosage is entered
\* with the latter.
FormSelections(s) ==
  { <<>>,
    [effects |-> s.effects, dosage |-> [id |-> "", amount |-> 10, unit |-> "mg"]]
      @@ (IF s.symptoms = <<>> THEN <<>>
          ELSE [symptomIds |-> MapSeq(s.symptoms, LAMBDA x : x.id)])
      @@ (IF s.activities = <<>> THEN <<>>
          ELSE [activityIds |-> MapSeq(s.activities, LAMBDA x : x.id)]) }

\* save returns early when neither a mood nor a preparation is chosen
DiaryEntryInputs(s) ==
  { e \in
      { sel @@ m @@ p @@ [datetime |-> "2024-01-01T08:00:00.000Z", note |-> "", effects |-> <<>>] :
          m \in Opt("mood", Range(s.moods)),
          p \in Opt("preparationId", Ids(s.preparations)),
          sel \in FormSelections(s) } :
      Has(e, "mood") \/ Has(e, "preparationId") }

\* The entry updateDiaryEntry gets: { ...entryToEdit, <the form's fields> }
EditedEntry(entryToEdit, fields) ==
  fields @@ [k \in (DOMAIN entryToEdit) \cap {"id", "ingredientIds"} |-> entryToEdit[k]]

(***************************************************************************)
(* DataService methods as actions.                                         *)
(***************************************************************************)
AddItem(coll, item, wrote) ==
  /\ CanGenerateId
  /\ Commit(AddItemFn(ds, coll, item, GenerateId), language, wrote, "data", TRUE)
  /\ idCount' = idCount + 1
  /\ UNCHANGED restVars

SetSignals(newDs, wrote, op) ==
  /\ Commit(newDs, language, wrote, op, TRUE)
  /\ UNCHANGED <<idCount, restVars>>

AddSimpleItem ==
  \E coll \in SimpleCollections, txt \in NewTexts : AddItem(coll, SimpleItem(coll, txt), {})

AddPreparation ==
  \E item \in PreparationInputs(ds) : AddItem("preparations", item, {})

\* UiService.handleUpdate stores an edited preparation with updateItem
UpdatePreparationItem ==
  \E prep \in Range(ds.preparations), item \in PreparationInputs(ds) :
    SetSignals(UpdateItemFn(ds, "preparations", Spread(item, [id |-> prep.id])),
               {}, "data")

UpdatePreparation ==
  \E prep \in Range(ds.preparations), item \in PreparationInputs(ds) :
    SetSignals(UpdatePreparationFn(ds, Spread(item, [id |-> prep.id])),
               {}, "data")

AddDiaryEntry ==
  \E entry \in DiaryEntryInputs(ds) : AddItem("diaryEntries", entry, {})

UpdateDiaryEntry ==
  \E e \in Range(ds.diaryEntries), fields \in DiaryEntryInputs(ds) :
    SetSignals(UpdateItemFn(ds, "diaryEntries", EditedEntry(e, fields)),
               {}, "data")

DeleteDiaryEntry ==
  \E e \in Range(ds.diaryEntries) :
    SetSignals(RemoveByIdFn(ds, "diaryEntries", e.id), {}, "data")

AddReminder(time, days) ==
  AddItem("reminders", [time |-> time, days |-> days], {"reminders"})

DeleteReminder ==
  \E r \in Range(ds.reminders) :
    SetSignals(RemoveByIdFn(ds, "reminders", r.id), {"reminders"}, "data")

\* UiService.handleCreate('CustomEmoji'): customEmojis.update
AddCustomEmoji ==
  \E emoji \in {"u"} :
    /\ ~Includes(ds.customEmojis, emoji)
    /\ SetSignals([ds EXCEPT !.customEmojis = Append(@, emoji)], {}, "data")

\* SettingsComponent.confirmDeleteItem: deleteItem of a listed item
DeleteItem ==
  \E entityType \in EntityTypes :
    \E id \in IF entityType = "CustomEmoji" THEN Range(ds.customEmojis)
              ELSE Ids(ds[CollectionOf(entityType)]) :
      SetSignals(DeleteItemFn(ds, entityType, id), {}, "data")

ToggleTheme == SetSignals(ToggleThemeFn(ds), {}, "data")

\* TranslationService.setLanguage
SetLanguage ==
  \E lang \in {"de", "en"} :
    /\ Commit(ds, lang, {}, "setLanguage", TRUE)
    /\ UNCHANGED <<idCount, restVars>>

\* SettingsComponent.exportData: the text handed to the file system
ExportDataOp ==
  /\ CommitWith(ds, language, {},
                [op |-> "exportData", ok |-> TRUE, out |-> ExportData(ds, language)])
  /\ UNCHANGED <<idCount, restVars>>

\* SettingsComponent.confirmImport of a chosen file's text
ImportData(json) ==
  LET r == ImportDataFn(ds, language, json)
  IN /\ CommitWith(r.ds, r.language,
                   IF r.ok THEN {"lockSettings", "reminders"} ELSE {},
                   [op |-> "importData", ok |-> r.ok, json |-> json,
                    before |-> ds.lockSettings, wasLocked |-> isLocked])
     /\ UNCHANGED <<idCount, restVars>>

\* SettingsComponent.confirmReset
ResetToDefaults ==
  SetSignals(ResetToDefaultsFn(language), {"lockSettings", "reminders"}, "resetToDefaults")

(***************************************************************************)
(* SettingsComponent: security settings.                                   *)
(***************************************************************************)
TimeoutOptions == {0, 60000, 300000, 900000}

\* toggleLock: the new state of the checkbox is the input
ToggleLock(enabled) ==
  IF enabled /\ ~PinTruthy(ds.lockSettings.pin)
  THEN \* openPinModal('create')
       /\ showPinModal' = TRUE
       /\ pinModalMode' = "create"
       /\ Commit(ds, language, {}, "toggleLock", TRUE)
       /\ UNCHANGED <<idCount, otherVars>>
  ELSE /\ Commit([ds EXCEPT !.lockSettings.isEnabled = enabled], language,
                 {"lockSettings"}, "toggleLock", TRUE)
       /\ UNCHANGED <<idCount, restVars>>

\* openPinModal('change'), the button of the security section
OpenPinModal(mode) ==
  /\ showPinModal' = TRUE
  /\ pinModalMode' = mode
  /\ Commit(ds, language, {}, "openPinModal", TRUE)
  /\ UNCHANGED <<idCount, otherVars>>

\* The signals closePinModal leaves: the switch is reset when no PIN exists
ClosePinModalFn(s, mode) ==
  IF mode = "create" /\ ~PinTruthy(s.lockSettings.pin)
  THEN [s EXCEPT !.lockSettings.isEnabled = FALSE]
  ELSE s

ClosePinModal ==
  /\ showPinModal
  /\ showPinModal' = FALSE
  /\ pinModalMode' = pinModalMode
  /\ Commit(ClosePinModalFn(ds, pinModalMode), language,
            IF pinModalMode = "create" /\ ~PinTruthy(ds.lockSettings.pin)
            THEN {"lockSettings"} ELSE {},
            "closePinModal", TRUE)
  /\ UNCHANGED <<idCount, otherVars>>

PinAccepted_AnyLength(pin, confirm) == pin = confirm

\* savePin: neither pin.length !== 4 nor pin !== confirm
PinAccepted(pin, confirm) == ~(Len(pin) # 4) /\ ~(pin # confirm)

\* savePin: pin and confirm are the two inputs of the modal
SavePin(pin, confirm) ==
  /\ showPinModal
  /\ IF ~PinAccepted(pin, confirm)
     THEN /\ Commit(ds, language, {}, "savePin", FALSE)
          /\ UNCHANGED <<idCount, restVars>>
     ELSE /\ showPinModal' = FALSE
          /\ pinModalMode' = pinModalMode
          /\ Commit([ds EXCEPT !.lockSettings.pin = pin, !.lockSettings.isEnabled = TRUE],
                    language, {"lockSettings"}, "savePin", TRUE)
          /\ UNCHANGED <<idCount, otherVars>>

\* updateTimeout
UpdateTimeout(timeout) ==
  SetSignals([ds EXCEPT !.lockSettings.timeout = timeout], {"lockSettings"}, "updateTimeout")

(***************************************************************************)
(* The clock, and events that touch no service state.                      *)
(***************************************************************************)
\* What an operation outside DataService leaves alone.
serviceVars == <<ds, language, localStorage, idCount, showPinModal, pinModalMode,
                 isNative, permission, formStack, forms, diaryForm>>

\* Time passes: d milliseconds, up to max after the start of the run
Tick(d, max) ==
  /\ now + d <= NowStart + max
  /\ now' = now + d
  /\ lastOp' = [op |-> "event", ok |-> TRUE]
  /\ UNCHANGED <<serviceVars, isLocked, backgroundedAt, isVerifyingBiometrics,
                 isBiometricsAvailable, availabilityPending, verifyCalls, dialog, currentPage,
                 pending, syncs, webTimeoutIds>>

\* AppComponent.navigate
Navigate(page) ==
  /\ currentPage' = page
  /\ lastOp' = [op |-> "navigate", ok |-> TRUE]
  /\ UNCHANGED <<serviceVars, now, isLocked, backgroundedAt, isVerifyingBiometrics,
                 isBiometricsAvailable, availabilityPending, verifyCalls, dialog,
                 pending, syncs, webTimeoutIds>>

\* AppComponent.setupNotificationListener: a reminder notification is tapped.
\* navigateToPage is consumed by the effect that calls navigate; the request
\* to open the diary form is taken by the diary list and not modelled.
NotificationTap ==
  /\ isNative
  /\ currentPage' = "diary"
  /\ lastOp' = [op |-> "notificationTap", ok |-> TRUE]
  /\ UNCHANGED <<serviceVars, now, isLocked, backgroundedAt, isVerifyingBiometrics,
                 isBiometricsAvailable, availabilityPending, verifyCalls, dialog,
                 pending, syncs, webTimeoutIds>>

(***************************************************************************)
(* LockService.                                                            *)
(***************************************************************************)
lockRest == <<serviceVars, now, pending, syncs, webTimeoutIds, currentPage>>

\* NativeBiometric.isAvailable().then(...)
BiometricsAvailability(isAvailable) ==
  /\ availabilityPending
  /\ availabilityPending' = FALSE
  /\ isBiometricsAvailable' = isAvailable
  /\ lastOp' = [op |-> "event", ok |-> TRUE]
  /\ UNCHANGED <<lockRest, isLocked, backgroundedAt, isVerifyingBiometrics, verifyCalls, dialog>>

\* appStateChange listener, isActive false
AppBackground ==
  /\ isNative
  /\ dialog \notin {"inactive", "verified", "rejected"}   \* the app has the focus
  /\ backgroundedAt' = now
  /\ lastOp' = [op |-> "event", ok |-> TRUE]
  /\ UNCHANGED <<lockRest, isLocked, isVerifyingBiometrics, isBiometricsAvailable,
                 availabilityPending, verifyCalls, dialog>>

\* timeInBackground >= settings.timeout, read the other way round
TimeoutElapsed_Strict(timeInBackground, timeout) == timeInBackground > timeout

\* timeInBackground >= settings.timeout
TimeoutElapsed(timeInBackground, timeout) == timeInBackground >= timeout

\* handleAppResume, observed under the name op
ResumeIgnored_Never(verifying) == FALSE

\* if (this.isVerifyingBiometrics) return
ResumeIgnored(verifying) == verifying

AppResume(op) ==
  /\ isNative
  /\ IF ResumeIgnored(isVerifyingBiometrics)
     THEN UNCHANGED <<isLocked, backgroundedAt>>
     ELSE IF ~ds.lockSettings.isEnabled \/ backgroundedAt = 0
     THEN UNCHANGED <<isLocked, backgroundedAt>>
     ELSE /\ isLocked' = IF TimeoutElapsed(now - backgroundedAt, ds.lockSettings.timeout)
                         THEN TRUE ELSE isLocked
          /\ backgroundedAt' = 0
  /\ lastOp' = [op |-> op, ok |-> TRUE, wasLocked |-> isLocked]
  /\ UNCHANGED <<lockRest, isVerifyingBiometrics, isBiometricsAvailable,
                 availabilityPending, verifyCalls>>

\* appStateChange listener, isActive true: the user comes back to the app
HandleAppResume == AppResume("handleAppResume") /\ UNCHANGED dialog

\* The biometric prompt takes the focus from the app: appStateChange
\* listener, isActive false
DialogInactive ==
  /\ isNative
  /\ dialog = "shown"
  /\ dialog' = "inactive"
  /\ backgroundedAt' = now
  /\ lastOp' = [op |-> "dialogInactive", ok |-> TRUE]
  /\ UNCHANGED <<lockRest, isLocked, isVerifyingBiometrics, isBiometricsAvailable,
                 availabilityPending, verifyCalls>>

\* The biometric prompt gives the focus back: appStateChange listener,
\* isActive true.  The event and the settling of verifyIdentity reach the
\* app in either order.
DialogActive ==
  /\ dialog \in {"inactive", "verified", "rejected"}
  /\ dialog' = IF dialog = "inactive" THEN "resumed" ELSE "none"
  /\ AppResume("dialogActive")

\* settings.isEnabled && settings.pin === pin, for a PIN of any kind
CheckPinFn_AnyPin(settings, pin) == settings.isEnabled

\* checkPin: its return value
CheckPinFn(settings, pin) == settings.isEnabled /\ settings.pin = pin

\* LockScreenComponent.submitPin: checkPin of the four digits entered
CheckPin(pin) ==
  /\ isLocked' = IF CheckPinFn(ds.lockSettings, pin) THEN FALSE ELSE isLocked
  /\ lastOp' = [op |-> "checkPin", ok |-> CheckPinFn(ds.lockSettings, pin),
                pin |-> pin, wasLocked |-> isLocked]
  /\ UNCHANGED <<lockRest, backgroundedAt, isVerifyingBiometrics, isBiometricsAvailable,
                 availabilityPending, verifyCalls, dialog>>

\* The prompt after verifyIdentity has settled: its resume event is still to
\* come if the app was told that it lost the focus and not yet that it has
\* it back
DialogSettled(d, outcome) ==
  CASE d = "inactive" -> outcome
    [] d \in {"shown", "resumed"} -> "none"
    [] OTHER -> d

\* verifyWithBiometrics up to its await
VerifyWithBiometrics ==
  /\ IF ~isNative \/ ~isBiometricsAvailable
     THEN /\ lastOp' = [op |-> "verifyWithBiometrics", ok |-> FALSE]
          /\ UNCHANGED <<isVerifyingBiometrics, verifyCalls, dialog>>
     ELSE /\ verifyCalls < MaxVerify
          /\ isVerifyingBiometrics' = TRUE
          /\ verifyCalls' = verifyCalls + 1
          /\ dialog' = IF dialog = "none" THEN "shown" ELSE dialog
          /\ lastOp' = [op |-> "verifyWithBiometrics", ok |-> TRUE]
  /\ UNCHANGED <<lockRest, isLocked, backgroundedAt, isBiometricsAvailable,
                 availabilityPending>>

\* verifyIdentity resolves: unlock, return true, finally
BiometricsVerified ==
  /\ verifyCalls > 0
  /\ verifyCalls' = verifyCalls - 1
  /\ isLocked' = FALSE
  /\ isVerifyingBiometrics' = FALSE
  /\ dialog' = DialogSettled(dialog, "verified")
  /\ lastOp' = [op |-> "biometricsVerified", ok |-> TRUE, wasLocked |-> isLocked]
  /\ UNCHANGED <<lockRest, backgroundedAt, isBiometricsAvailable, availabilityPending>>

\* verifyIdentity rejects (failure or cancel): catch, return false, finally
BiometricsFailed ==
  /\ verifyCalls > 0
  /\ verifyCalls' = verifyCalls - 1
  /\ isVerifyingBiometrics' = FALSE
  /\ dialog' = DialogSettled(dialog, "rejected")
  /\ lastOp' = [op |-> "biometricsFailed", ok |-> FALSE]
  /\ UNCHANGED <<lockRest, isLocked, backgroundedAt, isBiometricsAvailable,
                 availabilityPending>>

(***************************************************************************)
(* NotificationService.syncNotifications on the native platform: one       *)
(* action per await.  The platform serves the plugin calls in the order    *)
(* in which they were made: syncs lists the running syncNotifications      *)
(* calls in the order of their outstanding plugin calls, the first one is  *)
(* served and resumed, and the plugin call it makes next is the last.      *)
(***************************************************************************)
syncRest == <<serviceVars, now, isLocked, backgroundedAt, isVerifyingBiometrics,
              isBiometricsAvailable, availabilityPending, verifyCalls, dialog, currentPage,
              webTimeoutIds>>

\* LocalNotifications.schedule: a notification replaces the one of the same id
RECURSIVE Schedule(_, _)
Schedule(scheduled, notifications) ==
  IF notifications = <<>> THEN scheduled
  ELSE Schedule((Head(notifications).id :> Head(notifications)) @@ scheduled,
                Tail(notifications))

\* LocalNotifications.cancel
Cancel(scheduled, ids) == [id \in (DOMAIN scheduled) \ ids |-> scheduled[id]]

\* What follows the cancelling: return without reminders, else schedule
AfterCancel(sync, others) ==
  IF sync.reminders = <<>>
  THEN others
  ELSE Append(others, [pc |-> "schedule", reminders |-> sync.reminders])

\* await checkPermissions()
SyncCheckPermissions ==
  /\ syncs # <<>>
  /\ Head(syncs).pc = "checkPermissions"
  /\ syncs' = IF permission # "granted"
              THEN Tail(syncs)
              ELSE Append(Tail(syncs), [Head(syncs) EXCEPT !.pc = "getPending"])
  /\ lastOp' = [op |-> "event", ok |-> TRUE]
  /\ UNCHANGED <<syncRest, pending>>

\* await getPending()
SyncGetPending ==
  /\ syncs # <<>>
  /\ Head(syncs).pc = "getPending"
  /\ syncs' = IF DOMAIN pending # {}
              THEN Append(Tail(syncs),
                          [pc |-> "cancel", reminders |-> Head(syncs).reminders,
                           seen |-> DOMAIN pending])
              ELSE AfterCancel(Head(syncs), Tail(syncs))
  /\ lastOp' = [op |-> "event", ok |-> TRUE]
  /\ UNCHANGED <<syncRest, pending>>

\* await cancel(pending)
SyncCancel ==
  /\ syncs # <<>>
  /\ Head(syncs).pc = "cancel"
  /\ pending' = Cancel(pending, Head(syncs).seen)
  /\ syncs' = AfterCancel(Head(syncs), Tail(syncs))
  /\ lastOp' = [op |-> "event", ok |-> TRUE]
  /\ UNCHANGED syncRest

\* await schedule({ notifications: notificationsToSchedule })
SyncSchedule ==
  /\ syncs # <<>>
  /\ Head(syncs).pc = "schedule"
  /\ pending' = Schedule(pending, NotificationsFor(Head(syncs).reminders))
  /\ syncs' = Tail(syncs)
  /\ lastOp' = [op |-> "event", ok |-> TRUE]
  /\ UNCHANGED syncRest

(***************************************************************************)
(* UiService: the stack of CRUD forms.  A FormState is a record with type, *)
(* formValues, and optionally item (edit mode) and onSave (the form was    *)
(* opened by the diary entry form, which passes a callback).               *)
(***************************************************************************)
\* String.prototype.trim and toLowerCase on the texts of the model
Trim(t) == CASE t = " a" -> "a" [] t = " " -> "" [] OTHER -> t
ToLowerCase(t) ==
  CASE t = "A" -> "a" [] t = "Gut" -> "gut" [] t = "MG" -> "mg" [] OTHER -> t

\* !o.k is false
Truthy(o, k) == Has(o, k) /\ o[k] # ""
Trimmed_Raw(o, k) == IF Has(o, k) THEN o[k] ELSE ""
\* o.k?.trim(), with undefined read as the empty text (both are falsy)
Trimmed(o, k) == IF Has(o, k) THEN Trim(o[k]) ELSE ""
\* a.k === b.k for an optional property
SameField(a, b, k) == (Has(a, k) <=> Has(b, k)) /\ (Has(a, k) => a[k] = b[k])

\* EMOJI_DATA.flatMap(category => category.emojis), cut to the emojis in use
AllDefaultEmojis == {"x", "m", "e", "s", "a"}

Last(seq) == seq[Len(seq)]
Front_DropFirst(seq) == IF seq = <<>> THEN <<>> ELSE Tail(seq)
Front(seq) == SubSeq(seq, 1, Len(seq) - 1)       \* seq.slice(0, -1)

\* currentForm: stack[stack.length - 1], where UndefinedForm is undefined
UndefinedForm == [type |-> "undefined"]
CurrentFormOf(stack) == IF stack = <<>> THEN UndefinedForm ELSE Last(stack)
currentForm == CurrentFormOf(formStack)

\* The constructor's effect: resetForms, then the form signal of the type of
\* the current form is set to its formValues
FormEffect(stack) ==
  IF stack = <<>> THEN EmptyForms
  ELSE [EmptyForms EXCEPT ![Last(stack).type] = Last(stack).formValues]

\* The validation part of handleCreate (others = all items) and handleUpdate
\* (others = the items but the edited one): [ok, item], item being the form
\* values with the trimmed texts
Validate(type, formValues, others) ==
  LET failed == [ok |-> FALSE, item |-> formValues] IN
  CASE type \in {"Mood", "Symptom", "Activity", "Effect"} ->
         LET description == Trimmed(formValues, "description") IN
         IF ~Truthy(formValues, "emoji") THEN failed
         ELSE IF description = "" THEN failed
         ELSE IF \E m \in others : ToLowerCase(m.description) = ToLowerCase(description)
         THEN failed
         ELSE [ok |-> TRUE, item |-> Spread(formValues, [description |-> description])]
    [] type = "Manufacturer" ->
         LET name == Trimmed(formValues, "name") IN
         IF name = "" THEN failed
         ELSE IF \E m \in others : ToLowerCase(m.name) = ToLowerCase(name) THEN failed
         ELSE [ok |-> TRUE, item |-> Spread(formValues, [name |-> name])]
    [] type = "Dosage" ->
         LET unit == Trimmed(formValues, "unit") IN
         IF ~Has(formValues, "amount") THEN failed
         ELSE IF unit = "" THEN failed
         ELSE IF \E d \in others :
                   d.amount = formValues.amount /\ ToLowerCase(d.unit) = ToLowerCase(unit)
         THEN failed
         ELSE [ok |-> TRUE, item |-> Spread(formValues, [unit |-> unit])]
    [] type = "ActiveIngredient" ->
         LET amount == Trimmed(formValues, "amount")
             unit == Trimmed(formValues, "unit") IN
         IF amount = "" THEN failed
         ELSE IF unit = "" THEN failed
         ELSE IF \E ai \in others :
                   /\ ToLowerCase(ai.amount) = ToLowerCase(amount)
                   /\ ToLowerCase(ai.unit) = ToLowerCase(unit)
         THEN failed
         ELSE [ok |-> TRUE, item |-> Spread(formValues, [amount |-> amount, unit |-> unit])]
    [] type = "Preparation" ->
         LET name == Trimmed(formValues, "name") IN
         IF name = "" THEN failed
         ELSE IF \E q \in others :
                   /\ ToLowerCase(q.name) = ToLowerCase(name)
                   /\ SameField(q, formValues, "manufacturerId")
                   /\ SameField(q, formValues, "activeIngredientId")
         THEN failed
         ELSE [ok |-> TRUE, item |-> Spread(formValues, [name |-> name])]
    [] OTHER -> failed

ValidatedTypes ==
  {"Mood", "Symptom", "Activity", "Effect", "Manufacturer", "Dosage",
   "ActiveIngredient", "Preparation"}

\* handleCreate: [ok, ds, item] - whether an item was created, the signals
\* it leaves and the created item
HandleCreate(s, type, formValues, id) ==
  LET failed == [ok |-> FALSE, ds |-> s, item |-> <<>>] IN
  CASE type \in ValidatedTypes ->
         LET v == Validate(type, formValues, Range(s[CollectionOf(type)])) IN
         IF v.ok
         THEN [ok |-> TRUE, ds |-> AddItemFn(s, CollectionOf(type), v.item, id),
               item |-> Spread(v.item, [id |-> id])]
         ELSE failed
    [] type = "CustomEmoji" ->
         LET emoji == Trimmed(formValues, "emoji") IN
         IF emoji = "" THEN failed
         ELSE IF Len(emoji) # 1 THEN failed
         ELSE IF emoji \in AllDefaultEmojis \cup Range(s.customEmojis) THEN failed
         ELSE [ok |-> TRUE, ds |-> [s EXCEPT !.customEmojis = Append(@, emoji)],
               item |-> emoji]
    [] OTHER -> failed

\* handleUpdate: [ok, ds]; a type without a case changes nothing and succeeds
HandleUpdate(s, type, formValues, id) ==
  IF type \in ValidatedTypes
  THEN LET others == {i \in Range(s[CollectionOf(type)]) : i.id # id}
           v == Validate(type, formValues, others)
       IN IF v.ok
          THEN [ok |-> TRUE,
                ds |-> UpdateItemFn(s, CollectionOf(type), Spread(v.item, [id |-> id]))]
          ELSE [ok |-> FALSE, ds |-> s]
  ELSE [ok |-> TRUE, ds |-> s]

UpdateParentFormState_OnlyId(parentState, createdType, createdItem) ==
  IF parentState.type = "Preparation" /\ createdType = "Manufacturer"
  THEN [parentState EXCEPT !.formValues = [manufacturerId |-> createdItem.id]]
  ELSE parentState

\* updateParentFormState
UpdateParentFormState(parentState, createdType, createdItem) ==
  IF parentState.type = "Preparation"
  THEN CASE createdType = "Manufacturer" ->
              [parentState EXCEPT !.formValues =
                 Spread(@, [manufacturerId |-> createdItem.id])]
         [] createdType = "ActiveIngredient" ->
              [parentState EXCEPT !.formValues =
                 Spread(@, [activeIngredientId |-> createdItem.id])]
         [] createdType = "Dosage" ->
              [parentState EXCEPT !.formValues = Spread(@, [dosageId |-> createdItem.id])]
         [] OTHER -> parentState
  ELSE parentState

\* What the form methods leave alone when no item is written
formRest == <<ds, language, localStorage, now, idCount, lockVars, pinVars, notifVars,
              diaryForm>>

\* The stack changes and the constructor's effect runs on the new stack
SetFormStack(newStack, result) ==
  /\ formStack' = newStack
  /\ forms' = FormEffect(newStack)
  /\ lastOp' = result

\* openCreateForm; onSave is the callback of the diary entry form, which
\* writes the created item into that form and does not touch the stack
OpenCreateForm(type, onSave) ==
  /\ SetFormStack(<<IF onSave
                    THEN [type |-> type, formValues |-> <<>>, onSave |-> TRUE]
                    ELSE [type |-> type, formValues |-> <<>>]>>,
                  [op |-> "openCreateForm", ok |-> TRUE, type |-> type])
  /\ UNCHANGED formRest

\* openEditForm
OpenEditForm(type, item) ==
  /\ SetFormStack(<<[type |-> type, item |-> item, formValues |-> item]>>,
                  [op |-> "openEditForm", ok |-> TRUE, type |-> type])
  /\ UNCHANGED formRest

\* openSubCreateForm.  On an empty stack stack[stack.length - 1]! is undefined
\* and reading its type throws a TypeError: the update does not happen.
OpenSubCreateForm(subFormType) ==
  /\ Len(formStack) <= MaxStack
  /\ IF formStack = <<>>
     THEN /\ lastOp' = [op |-> "openSubCreateForm", ok |-> FALSE, type |-> subFormType]
          /\ UNCHANGED <<formStack, forms>>
     ELSE
     LET currentFormState == Last(formStack)
         currentFormValues == IF currentFormState.type = "Preparation"
                              THEN forms["Preparation"] ELSE <<>>
         newStack == Append(Append(Front(formStack),
                                   [currentFormState EXCEPT
                                      !.formValues = currentFormValues]),
                            [type |-> subFormType, formValues |-> <<>>])
     IN SetFormStack(newStack,
                     [op |-> "openSubCreateForm", ok |-> TRUE, type |-> subFormType])
  /\ UNCHANGED formRest

\* cancelForm
CancelForm ==
  /\ SetFormStack(Front(formStack),
                  [op |-> "cancelForm", ok |-> TRUE, type |-> currentForm.type])
  /\ UNCHANGED formRest

\* The user types into the open form: the form signal of its type is set
EditForm(values) ==
  /\ formStack # <<>>
  /\ forms' = [forms EXCEPT ![currentForm.type] = Spread(@, values)]
  /\ lastOp' = [op |-> "editForm", ok |-> TRUE, type |-> currentForm.type]
  /\ UNCHANGED <<formStack, formRest>>

(***************************************************************************)
(* DiaryEntryFormComponent: the form signals are the fields of diaryForm;  *)
(* a missing field is undefined or null, a text is the sequence of its     *)
(* parts.                                                                  *)
(***************************************************************************)
\* items.find(i => i.id === id): the items found, none if there is none
FindById(items, id) == {i \in Range(items) : i.id = id}

\* formatPreparation: name, "amount unit" of the active ingredient, "(manufacturer)"
FormatPreparation(s, prep) ==
  <<prep.name>>
  \o (IF Has(prep, "activeIngredientId")
      THEN LET ai == FindById(s.activeIngredients, prep.activeIngredientId) IN
           IF ai = {} THEN <<>> ELSE LET a == CHOOSE x \in ai : TRUE IN <<a.amount, a.unit>>
      ELSE <<>>)
  \o (IF Has(prep, "manufacturerId")
      THEN LET man == FindById(s.manufacturers, prep.manufacturerId) IN
           IF man = {} THEN <<>> ELSE <<(CHOOSE x \in man : TRUE).name>>
      ELSE <<>>)

\* resetForm
ResetDiaryForm ==
  [open |-> TRUE, preparationSearchText |-> <<>>, formDosageUnit |-> ""]

\* The constructor's first effect, for an entry to edit
DiaryFormOf(s, entry) ==
  [open |-> TRUE, entryToEdit |-> entry,
   preparationSearchText |->
     IF Has(entry, "preparationId")
     THEN LET prep == FindById(s.preparations, entry.preparationId) IN
          IF prep = {} THEN <<>> ELSE FormatPreparation(s, CHOOSE x \in prep : TRUE)
     ELSE <<>>,
   formDosageUnit |-> IF Has(entry, "dosage") THEN entry.dosage.unit ELSE ""]
  @@ (IF Has(entry, "dosage") THEN [formDosageAmount |-> entry.dosage.amount] ELSE <<>>)
  @@ (IF Has(entry, "mood") THEN [formMoodId |-> entry.mood.id] ELSE <<>>)
  @@ (IF Has(entry, "preparationId") THEN [formPreparationId |-> entry.preparationId]
      ELSE <<>>)

\* The constructor's second effect: the dosage of the chosen preparation
DosageEffect(s, f) ==
  IF Has(f, "entryToEdit") THEN f
  ELSE IF ~Has(f, "formPreparationId")
  THEN [Omit(f, "formDosageAmount") EXCEPT !.formDosageUnit = ""]
  ELSE LET prep == FindById(s.preparations, f.formPreparationId) IN
       IF prep # {} /\ Has(CHOOSE x \in prep : TRUE, "dosageId")
       THEN LET dosage == FindById(s.dosages, (CHOOSE x \in prep : TRUE).dosageId) IN
            IF dosage # {}
            THEN Spread(f, [formDosageAmount |-> (CHOOSE d \in dosage : TRUE).amount,
                            formDosageUnit |-> (CHOOSE d \in dosage : TRUE).unit])
            ELSE f
       ELSE f

\* The onSave callbacks of the diary entry form; those of the symptom,
\* activity and effect forms write the lists of ids, which the form of the
\* model leaves empty
OnSaveCallback(s, f, type, item) ==
  IF ~f.open THEN f
  ELSE CASE type = "Preparation" ->
              DosageEffect(s, Spread(f, [preparationSearchText |-> FormatPreparation(s, item),
                                         formPreparationId |-> item.id]))
         [] type = "Mood" -> Spread(f, [formMoodId |-> item.id])
         [] OTHER -> f

\* saveForm, with the DataService call of handleCreate / handleUpdate
SaveForm ==
  LET form == currentForm
      \* onSave: the arguments of the calls of form.onSave
      result(ok, calls) ==
        [op |-> "saveForm", ok |-> ok, type |-> form.type, onSave |-> calls]
      failed == /\ lastOp' = result(FALSE, <<>>)
                /\ UNCHANGED <<formStack, forms, formRest>>
  IN IF form = UndefinedForm THEN failed
     ELSE IF Has(form, "item")
     THEN LET r == HandleUpdate(ds, form.type, forms[form.type], form.item.id) IN
          IF r.ok
          THEN /\ CommitWith(r.ds, language, {}, result(TRUE, <<>>))
               /\ formStack' = Front(formStack)
               /\ forms' = FormEffect(formStack')
               /\ UNCHANGED <<now, idCount, backgroundedAt, isVerifyingBiometrics,
                              isBiometricsAvailable, availabilityPending, verifyCalls, dialog,
                              currentPage, isNative, permission, pending, pinVars,
                              diaryForm>>
          ELSE failed
     ELSE LET r == HandleCreate(ds, form.type, forms[form.type], GenerateId) IN
          IF r.ok
          THEN /\ form.type # "CustomEmoji" => CanGenerateId
               /\ CommitWith(r.ds, language, {},
                             result(TRUE, IF Has(form, "onSave") THEN <<r.item>> ELSE <<>>))
               /\ idCount' = IF form.type = "CustomEmoji" THEN idCount ELSE idCount + 1
               /\ formStack' =
                    IF Len(formStack) > 1
                    THEN Front([formStack EXCEPT ![Len(formStack) - 1] =
                                  UpdateParentFormState(@, form.type, r.item)])
                    ELSE Front(formStack)
               /\ forms' = FormEffect(formStack')
               /\ diaryForm' = IF Has(form, "onSave")
                               THEN OnSaveCallback(r.ds, diaryForm, form.type, r.item)
                               ELSE diaryForm
               /\ UNCHANGED <<now, backgroundedAt, isVerifyingBiometrics,
                              isBiometricsAvailable, availabilityPending, verifyCalls, dialog,
                              currentPage, isNative, permission, pending, pinVars>>
          ELSE failed

\* The callback of a web timer runs, at the time it was set for or later:
\* showWebNotification, and the timer for the next sync is set
WebTimerFires ==
  \E i \in 1..Len(webTimeoutIds) :
    /\ ~webTimeoutIds[i].fired
    /\ webTimeoutIds[i].setAt + webTimeoutIds[i].delay <= now
    /\ webTimeoutIds' = [webTimeoutIds EXCEPT ![i].fired = TRUE]
    /\ lastOp' = [op |-> "webTimer", ok |-> TRUE]
    /\ UNCHANGED <<serviceVars, now, isLocked, backgroundedAt, isVerifyingBiometrics,
                   isBiometricsAvailable, availabilityPending, verifyCalls, dialog,
                   currentPage, pending, syncs>>

\* setTimeout(() => this.syncNotifications(), 1000): the web branch of
\* syncNotifications, a second after a timer has fired
WebResync ==
  /\ ~isNative
  /\ \E i \in 1..Len(webTimeoutIds) :
       /\ webTimeoutIds[i].fired
       /\ webTimeoutIds[i].setAt + webTimeoutIds[i].delay + 1000 <= now
  /\ webTimeoutIds' = IF permission = "granted" THEN WebTimersFor(ds.reminders, now) ELSE <<>>
  /\ lastOp' = [op |-> "syncNotifications", ok |-> TRUE]
  /\ UNCHANGED <<serviceVars, now, isLocked, backgroundedAt, isVerifyingBiometrics,
                 isBiometricsAvailable, availabilityPending, verifyCalls, dialog,
                 currentPage, pending, syncs>>

\* What the handlers of the diary entry form leave alone
diaryRest == <<language, now, backgroundedAt, isVerifyingBiometrics, isBiometricsAvailable,
               availabilityPending, verifyCalls, dialog, currentPage, pinVars,
               isNative, permission, pending, formStack, forms>>

SetDiaryForm(f, op) ==
  /\ diaryForm' = f
  /\ lastOp' = [op |-> op, ok |-> TRUE]
  /\ UNCHANGED <<ds, localStorage, isLocked, syncs, webTimeoutIds, idCount, diaryRest>>

\* DiaryListComponent.addEntry: the form opens, its first effect resets it
AddEntry ==
  /\ ~diaryForm.open
  /\ SetDiaryForm(ResetDiaryForm, "addEntry")

\* DiaryListComponent.editEntry: the form opens with the fields of the entry
EditEntry(entry) ==
  /\ ~diaryForm.open
  /\ SetDiaryForm(DiaryFormOf(ds, entry), "editEntry")

\* The user picks one of the moods shown
SelectMood(id) ==
  /\ diaryForm.open
  /\ SetDiaryForm(Spread(diaryForm, [formMoodId |-> id]), "selectMood")

\* selectPreparation
SelectPreparation(prep) ==
  /\ diaryForm.open
  /\ SetDiaryForm(DosageEffect(ds, Spread(diaryForm,
                                          [preparationSearchText |-> FormatPreparation(ds, prep),
                                           formPreparationId |-> prep.id])),
                  "selectPreparation")

\* onPreparationInput: the id is that of the preparation the text names
OnPreparationInput(value) ==
  LET matched == {q \in Range(ds.preparations) : FormatPreparation(ds, q) = value}
      typed == Spread(diaryForm, [preparationSearchText |-> value])
  IN /\ diaryForm.open
     /\ SetDiaryForm(DosageEffect(ds, IF matched = {} THEN Omit(typed, "formPreparationId")
                                      ELSE Spread(typed, [formPreparationId |->
                                                            (CHOOSE q \in matched : TRUE).id])),
                     "onPreparationInput")

\* The user fills in the two dosage fields; amount is the field, or empty
EnterDosage(amount, unit) ==
  /\ diaryForm.open
  /\ SetDiaryForm(amount @@ [Omit(diaryForm, "formDosageAmount") EXCEPT
                               !.formDosageUnit = unit],
                  "enterDosage")

\* openCreatePreparationForm
OpenCreatePreparationForm ==
  /\ diaryForm.open
  /\ OpenCreateForm("Preparation", TRUE)

\* The entry save builds from the form; effects, symptoms, activities and the
\* note are left empty in the form of the model
DiaryEntryOf(s, f, dosageUnit) ==
  [datetime |-> "2024-01-01T08:00:00.000Z", note |-> "", effects |-> <<>>]
  @@ (IF Has(f, "formMoodId") /\ FindById(s.moods, f.formMoodId) # {}
      THEN [mood |-> CHOOSE m \in FindById(s.moods, f.formMoodId) : TRUE] ELSE <<>>)
  @@ (IF Has(f, "formPreparationId") THEN [preparationId |-> f.formPreparationId] ELSE <<>>)
  @@ (IF Has(f, "formDosageAmount") /\ dosageUnit # ""
      THEN [dosage |-> [id |-> "", amount |-> f.formDosageAmount, unit |-> dosageUnit]]
      ELSE <<>>)

\* Whether save returns early with an error toast
SaveRejected(f) ==
  LET dosageUnit == Trim(f.formDosageUnit) IN
  \/ ~Has(f, "formMoodId") /\ ~Has(f, "formPreparationId")
  \/ Has(f, "formDosageAmount") /\ dosageUnit = ""
  \/ ~Has(f, "formDosageAmount") /\ dosageUnit # ""
  \/ f.preparationSearchText # <<>> /\ ~Has(f, "formPreparationId")

\* DiaryEntryFormComponent.save; close.emit() runs DiaryListComponent.closeForm
DiarySave ==
  LET f == diaryForm
      entry == DiaryEntryOf(ds, f, Trim(f.formDosageUnit))
      result(ok) == [op |-> "save", ok |-> ok]
  IN /\ f.open
     /\ IF SaveRejected(f)
        THEN /\ lastOp' = result(FALSE)
             /\ UNCHANGED <<ds, localStorage, isLocked, syncs, webTimeoutIds, idCount,
                            diaryForm, diaryRest>>
        ELSE IF Has(f, "entryToEdit")
        THEN /\ CommitWith(UpdateItemFn(ds, "diaryEntries", EditedEntry(f.entryToEdit, entry)),
                           language, {}, result(TRUE))
             /\ diaryForm' = ClosedDiaryForm
             /\ UNCHANGED <<idCount, now, backgroundedAt, isVerifyingBiometrics,
                            isBiometricsAvailable, availabilityPending, verifyCalls, dialog,
                            currentPage, pinVars, isNative, permission, pending,
                            formStack, forms>>
        ELSE /\ CanGenerateId
             /\ CommitWith(AddItemFn(ds, "diaryEntries", entry, GenerateId),
                           language, {}, result(TRUE))
             /\ idCount' = idCount + 1
             /\ diaryForm' = ClosedDiaryForm
             /\ UNCHANGED <<now, backgroundedAt, isVerifyingBiometrics,
                            isBiometricsAvailable, availabilityPending, verifyCalls, dialog,
                            currentPage, pinVars, isNative, permission, pending,
                            formStack, forms>>

(***************************************************************************)
(* StatisticsComponent: the computed signals, as functions of the signals  *)
(* of DataService, the two filters and the clock.                          *)
(***************************************************************************)
TopCount == 5

\* new Date(text): the year and the milliseconds of the dates of the model,
\* for a clock that shows 2024-01-11T08:00 at NowStart
RecentDate == "2024-01-10T08:00:00.000Z"
EarlierDate == "2023-12-22T08:00:00.000Z"
GetFullYear(text) ==
  CASE text = EarlierDate -> "2023" [] OTHER -> "2024"
DateNumber(text) ==
  CASE text = RecentDate -> NowStart - DayMs
    [] text = EarlierDate -> NowStart - 20 * DayMs
    [] OTHER -> NowStart - 10 * DayMs

\* (ms / (1000 * 3600 * 24)) <= n, the quotient being a fraction
DaysAgoAtMost(ms, n) ==
  \/ ms \div DayMs < n
  \/ ms \div DayMs = n /\ ms % DayMs = 0

\* filteredEntries
FilteredEntries(entries, dateF, yearF, t) ==
  IF yearF # "all"
  THEN SelectSeq(entries, LAMBDA entry : GetFullYear(entry.datetime) = yearF)
  ELSE SelectSeq(entries, LAMBDA entry :
         IF dateF = "all" THEN TRUE
         ELSE IF dateF = "7d" THEN DaysAgoAtMost(t - DateNumber(entry.datetime), 7)
         ELSE IF dateF = "30d" THEN DaysAgoAtMost(t - DateNumber(entry.datetime), 30)
         ELSE TRUE)

\* The Map of topPreparations, as the sequence of its entries <<key, count>>
\* in insertion order
RECURSIVE CountPreparations(_, _)
CountPreparations(entries, counts) ==
  IF entries = <<>> THEN counts
  ELSE LET entry == Head(entries)
           found == {i \in 1..Len(counts) : counts[i][1] = entry.preparationId}
       IN CountPreparations(
            Tail(entries),
            IF ~Has(entry, "preparationId") THEN counts
            ELSE IF found = {} THEN Append(counts, <<entry.preparationId, 1>>)
            ELSE [counts EXCEPT ![CHOOSE i \in found : TRUE] = <<@[1], @[2] + 1>>])

SortByCount_Unsorted(stats) == stats
\* Array.prototype.sort((a, b) => b.count - a.count), which is stable
RECURSIVE SortByCount(_)
SortByCount(stats) ==
  IF stats = <<>> THEN <<>>
  ELSE LET sorted == SortByCount(SubSeq(stats, 1, Len(stats) - 1))
           x == stats[Len(stats)]
           before == SelectSeq(sorted, LAMBDA y : y.count >= x.count)
           after == SelectSeq(sorted, LAMBDA y : y.count < x.count)
       IN before \o <<x>> \o after

\* getSortedPrepStats, without the manufacturer and the active ingredient
GetSortedPrepStats(s, counts) ==
  LET found == SelectSeq(counts, LAMBDA c : FindById(s.preparations, c[1]) # {})
      stat(c) == [prep |-> CHOOSE q \in FindById(s.preparations, c[1]) :
                             \A i, j \in 1..Len(s.preparations) :
                               (s.preparations[i] = q /\ s.preparations[j].id = c[1]) => i <= j,
                  count |-> c[2]]
  IN SortByCount(MapSeq(found, stat))

\* topPreparations
TopPreparations(s, dateF, yearF, t) ==
  LET stats == GetSortedPrepStats(
                 s, CountPreparations(FilteredEntries(s.diaryEntries, dateF, yearF, t), <<>>))
  IN SubSeq(stats, 1, IF Len(stats) < TopCount THEN Len(stats) ELSE TopCount)

(***************************************************************************)
(* Specification of the CRUD methods of DataService.                       *)
(***************************************************************************)
InitWeb == Construct(EmptyStorage, "de", FALSE, "denied") /\ now = NowStart /\ idCount = 0

NextCrud ==
  \/ AddSimpleItem
  \/ AddPreparation
  \/ UpdatePreparationItem
  \/ UpdatePreparation
  \/ AddDiaryEntry
  \/ UpdateDiaryEntry
  \/ DeleteDiaryEntry
  \/ DeleteItem

SpecCrud == InitWeb /\ [][NextCrud]_vars

\* A reference field of x: missing, or the id of an entity of the collection
RefExists(x, k, coll) == Has(x, k) => x[k] \in Ids(ds[coll])
\* A list of references of x: missing, or ids of entities of the collection
RefsExist(x, k, coll) == Has(x, k) => Range(x[k]) \subseteq Ids(ds[coll])

\* C1: after any sequence of addItem / updateItem / updatePreparation /
\* addDiaryEntry / updateDiaryEntry calls that store ids of existing entities
\* only, and of deleteItem calls, every reference field points to an existing
\* entity or is undefined: manufacturerId, dosageId, activeIngredientId and
\* ingredientIds of a preparation; preparationId, symptomIds, activityIds and
\* ingredientIds of a diary entry.
C1_ReferentialIntegrity ==
  /\ \A prep \in Range(ds.preparations) :
       /\ RefExists(prep, "manufacturerId", "manufacturers")
       /\ RefExists(prep, "dosageId", "dosages")
       /\ RefExists(prep, "activeIngredientId", "activeIngredients")
       /\ RefsExist(prep, "ingredientIds", "ingredients")
  /\ \A entry \in Range(ds.diaryEntries) :
       /\ RefExists(entry, "preparationId", "preparations")
       /\ RefsExist(entry, "symptomIds", "symptoms")
       /\ RefsExist(entry, "activityIds", "activities")
       /\ RefsExist(entry, "ingredientIds", "ingredients")

(***************************************************************************)
(* Specification of the settings page: theme, language, security, export,  *)
(* import, reset, and the restart of the app.                              *)
(***************************************************************************)
\* The state of another installation, and its backup
OtherDeviceSignals ==
  [InitialSignals EXCEPT
     !.theme = "dark",
     !.lockSettings = [isEnabled |-> TRUE, pin |-> "9999", timeout |-> 300000],
     !.moods = DefaultMoods("en"),
     !.preparations = <<[id |-> 7, name |-> "p"]>>,
     !.diaryEntries =
        << [id |-> 8, datetime |-> "2024-01-01T08:00:00.000Z",
            mood |-> Head(DefaultMoods("en")), preparationId |-> 7,
            effects |-> <<>>, note |-> ""] >>]
ForeignBackup == ExportData(OtherDeviceSignals, "en")

\* The backup of an installation in which nothing was set
FreshBackup == ExportData(ResetToDefaultsFn("de"), "de")

\* A backup of a version that stored fewer fields
OldBackup == JsonStringify([lockSettings |-> [isEnabled |-> TRUE], moods |-> <<>>])

\* The texts a chosen file may hold
ImportInputs(s, lang) ==
  {InvalidJsonText, NullJsonText, ExportData(s, lang), ForeignBackup, OldBackup}

\* What the user types into the PIN modal: entry and confirmation
PinEntries == {<<"1234", "1234">>, <<"1234", "4321">>, <<"123", "123">>}

NextBackup ==
  \/ ToggleTheme
  \/ SetLanguage
  \/ AddCustomEmoji
  \/ DeleteItem
  \/ \E enabled \in BOOLEAN : ToggleLock(enabled)
  \/ OpenPinModal("change")
  \/ ClosePinModal
  \/ \E e \in PinEntries : SavePin(e[1], e[2])
  \/ \E timeout \in TimeoutOptions : UpdateTimeout(timeout)
  \/ ExportDataOp
  \/ \E json \in ImportInputs(ds, language) : ImportData(json)
  \/ ResetToDefaults
  \/ Restart

SpecBackup == InitWeb /\ [][NextBackup]_vars

\* C2: the JSON returned by exportData holds lockSettings without a pin
\* field, and two states that differ in lockSettings.pin only give the same
\* export text.
C2_PinNotExported ==
  /\ lastOp.op = "exportData" => ~Has(JsonParse(lastOp.out).lockSettings, "pin")
  /\ \A pin \in {Null, "1234", "4321"} :
       ExportData([ds EXCEPT !.lockSettings.pin = pin], language) = ExportData(ds, language)

\* exportData has run in a state with a stored PIN
C2_Witness ==
  /\ lastOp.op = "exportData"
  /\ PinTruthy(ds.lockSettings.pin)
  /\ JsonParse(lastOp.out).lockSettings = [isEnabled |-> TRUE, timeout |-> 60000]

\* C3: after importData has returned true the lock is enabled only if the
\* backup had lockSettings.isEnabled === true and a PIN was stored before the
\* import, and then the PIN is the one stored before; the lock is never
\* enabled with the PIN null.
C3_ImportNeverLocksOut ==
  [][ (lastOp'.op = "importData" /\ lastOp'.ok) =>
        LET importedSettings == OrDefault(JsonParse(lastOp'.json), "lockSettings", <<>>)
        IN /\ ds'.lockSettings.isEnabled =>
                /\ Has(importedSettings, "isEnabled")
                /\ importedSettings.isEnabled = TRUE
                /\ PinTruthy(ds.lockSettings.pin)
                /\ ds'.lockSettings.pin = ds.lockSettings.pin
           /\ ~(ds'.lockSettings.isEnabled /\ ds'.lockSettings.pin = Null) ]_vars

\* A backup with the lock enabled was imported on a device without a PIN
C3_Witness ==
  /\ lastOp.op = "importData" /\ lastOp.ok
  /\ lastOp.json = ForeignBackup
  /\ ~PinTruthy(lastOp.before.pin)
  /\ ds.lockSettings = [isEnabled |-> FALSE, pin |-> Null, timeout |-> 300000]

\* C6: importData(exportData(s)) applied to s returns true and leaves the
\* theme, the language, the module settings, every collection and the lock
\* settings (isEnabled, pin, timeout) as they are in s.
C6_RoundTrip ==
  [][ (lastOp'.op = "importData" /\ lastOp'.json = ExportData(ds, language)) =>
        /\ lastOp'.ok
        /\ language' = language
        /\ ds' = ds ]_vars

\* C6, amended: ... except that the PIN is kept only if the lock is enabled
\* in s; with the lock disabled the stored PIN becomes null.
C6_RoundTripButDisabledPin ==
  [][ (lastOp'.op = "importData" /\ lastOp'.json = ExportData(ds, language)) =>
        /\ lastOp'.ok
        /\ language' = language
        /\ ds' = [ds EXCEPT !.lockSettings.pin =
                              IF ds.lockSettings.isEnabled THEN @ ELSE Null] ]_vars

\* The own export was imported with the lock disabled and a PIN stored
C6_Witness ==
  /\ lastOp.op = "importData" /\ lastOp.ok
  /\ lastOp.json = ExportData(ds, language)
  /\ lastOp.before = [isEnabled |-> FALSE, pin |-> "1234", timeout |-> 60000]
  /\ ds.lockSettings = [isEnabled |-> FALSE, pin |-> Null, timeout |-> 60000]
  /\ ds.customEmojis # <<>>

\* C7: the text stored under 'medikamententagebuch' is always the one of the
\* current state, and the next start restores from it the same theme, lock
\* settings (with the PIN), module settings and collections, empty ones too.
C7_PersistenceRoundTrip ==
  /\ localStorage[StorageKey] = SaveToLocalStorage(ds)
  /\ [][ /\ localStorage'[StorageKey] = SaveToLocalStorage(ds')
         /\ lastOp'.op = "start" => ds' = ds ]_vars

\* The app was started again with an empty list of moods and a stored PIN
C7_Witness ==
  /\ lastOp.op = "start"
  /\ ds.moods = <<>>
  /\ ds.customEmojis # <<>>
  /\ ds.theme = "dark"
  /\ ds.lockSettings = [isEnabled |-> TRUE, pin |-> "1234", timeout |-> 900000]

(***************************************************************************)
(* Specification of the app lock on a device: the security settings, the   *)
(* lock screen, the app going to the background and coming back.           *)
(***************************************************************************)
MaxBackground == 120000    \* milliseconds of the run
LockTick == 60000          \* a step of the clock

\* The storage an earlier run has left: lock enabled, PIN set, 1 minute
LockedStorage ==
  (StorageKey :>
     SaveToLocalStorage(
       [ResetToDefaultsFn("de") EXCEPT
          !.lockSettings = [isEnabled |-> TRUE, pin |-> "1234", timeout |-> 60000]]))
  @@ (LangKey :> "de")

InitDevice ==
  /\ Construct(LockedStorage, "de", TRUE, "denied")
  /\ now = NowStart
  /\ idCount = 0

LockScreenPins == {"1234", "4321"}

NextLock ==
  \/ \E enabled \in BOOLEAN : ToggleLock(enabled)
  \/ \E timeout \in TimeoutOptions : UpdateTimeout(timeout)
  \/ \E json \in {ForeignBackup, FreshBackup} : ImportData(json)
  \/ ResetToDefaults
  \/ Restart
  \/ \E page \in {"diary", "settings"} : Navigate(page)
  \/ NotificationTap
  \/ Tick(LockTick, MaxBackground)
  \/ \E isAvailable \in BOOLEAN : BiometricsAvailability(isAvailable)
  \/ AppBackground
  \/ HandleAppResume
  \/ \E pin \in LockScreenPins : CheckPin(pin)
  \/ VerifyWithBiometrics
  \/ BiometricsVerified
  \/ BiometricsFailed
  \/ SyncCheckPermissions

SpecLock == InitDevice /\ [][NextLock]_vars

\* C4: at app start isLocked equals lockSettings.isEnabled, and a locked app
\* is unlocked only by checkPin with the stored PIN while the lock is
\* enabled, by a biometric verification that succeeded, or by the lock being
\* disabled in the settings; a wrong PIN, a resume, a navigation or a tap on
\* a notification leave it locked.
C4_LockGating ==
  /\ isLocked = ds.lockSettings.isEnabled
  /\ [][ /\ lastOp'.op = "start" => isLocked' = ds'.lockSettings.isEnabled
         /\ (isLocked /\ ~isLocked') =>
              \/ /\ lastOp'.op = "checkPin"
                 /\ lastOp'.pin = ds.lockSettings.pin
                 /\ ds.lockSettings.isEnabled
              \/ lastOp'.op = "biometricsVerified"
              \/ ~ds'.lockSettings.isEnabled
         /\ (isLocked /\ lastOp'.op \in {"handleAppResume", "navigate", "notificationTap"})
              => isLocked'
         /\ (isLocked /\ lastOp'.op = "checkPin" /\ lastOp'.pin # ds.lockSettings.pin)
              => isLocked' ]_vars

\* A wrong PIN was entered on the lock screen: the app is still locked
C4_Witness ==
  /\ lastOp.op = "checkPin"
  /\ lastOp.wasLocked
  /\ ~lastOp.ok
  /\ lastOp.pin # ds.lockSettings.pin
  /\ isLocked

IdWindow == IdRadix * IdRadix  \* milliseconds in which 6 characters of an id stay
MaxWindows == 1                \* id windows that pass in one run

InitReminders ==
  /\ Construct(EmptyStorage, "de", TRUE, "granted")
  /\ now = NowStart
  /\ idCount = 0

\* SettingsComponent.saveReminder: the weekdays chosen (1 = Sunday)
ReminderDays == {<<1>>, <<2>>, <<1, 2>>}

NextNotif ==
  \/ \E days \in ReminderDays : AddReminder("08:00", days)
  \/ DeleteReminder
  \/ Tick(IdWindow, MaxWindows * IdWindow)
  \/ SyncCheckPermissions
  \/ SyncGetPending
  \/ SyncCancel
  \/ SyncSchedule

SpecNotif == InitReminders /\ [][NextNotif]_vars

\* The (reminder, weekday) pairs of a list of reminders
ReminderPairs(reminders) ==
  {<<n.reminderId, n.weekday>> : n \in Range(NotificationsFor(reminders))}

\* The notification ids of a list of reminders are pairwise distinct
DistinctNotificationIds(reminders) ==
  LET ns == NotificationsFor(reminders)
  IN \A i, j \in 1..Len(ns) : i # j => ns[i].id # ns[j].id

\* C8: once every syncNotifications call has completed, the pending system
\* notifications are one per (reminder, selected weekday) pair of the current
\* reminders, also when the reminders changed while a sync was awaiting.
\* (Stated for reminders whose notification ids do not clash.)
C8_NotificationsUpToDate ==
  (syncs = <<>> /\ DistinctNotificationIds(ds.reminders)) =>
    /\ {<<pending[id].reminderId, pending[id].weekday>> : id \in DOMAIN pending}
         = ReminderPairs(ds.reminders)
    /\ Cardinality(DOMAIN pending) = Cardinality(ReminderPairs(ds.reminders))

\* C9: the notification ids parseInt(first 6 characters of reminder.id, 36) +
\* weekday of the reminders that addReminder created are pairwise distinct
\* over all (reminder, weekday) pairs.
C9_UniqueNotificationIds == DistinctNotificationIds(ds.reminders)

(***************************************************************************)
(* Specification of the form stack of UiService: the settings page and the *)
(* diary entry form open main forms, an open form opens sub-forms, the     *)
(* user types, cancels and saves.                                          *)
(***************************************************************************)
\* The forms of the settings page and of the emoji picker (no callback) and
\* those of the diary entry form (with callback)
MainFormTypes == {"Manufacturer", "Preparation", "CustomEmoji"}
DiaryFormTypes == {"Preparation"}
EditFormTypes == {"Manufacturer", "Preparation"}
SubFormTypes == {"Manufacturer", "ActiveIngredient", "Dosage"}

\* What the user types into a form of a type: complete and incomplete values,
\* with surrounding blanks and with capitals
FormInputs(type) ==
  CASE type = "Manufacturer" -> {[name |-> " a"], [name |-> " "]}
    [] type = "Dosage" -> {[amount |-> 10, unit |-> "mg"], [unit |-> " "]}
    [] type = "ActiveIngredient" -> {[amount |-> "10", unit |-> "mg"]}
    [] type = "Preparation" -> {[name |-> " a"], [name |-> ""]}
    [] type = "CustomEmoji" -> {[emoji |-> "c"], [emoji |-> "cc"]}
    [] OTHER -> {}

NextForm ==
  \/ \E type \in MainFormTypes : OpenCreateForm(type, FALSE)
  \/ \E type \in DiaryFormTypes : OpenCreateForm(type, TRUE)
  \/ \E type \in EditFormTypes :
       \E item \in Range(ds[CollectionOf(type)]) : OpenEditForm(type, item)
  \/ \E subFormType \in SubFormTypes : OpenSubCreateForm(subFormType)
  \/ \E values \in FormInputs(currentForm.type) : EditForm(values)
  \/ CancelForm
  \/ SaveForm

SpecForm == InitWeb /\ [][NextForm]_vars

\* The type and the item of the first k forms are the same before and after
BelowUnchanged(k) ==
  \A i \in 1..k : /\ formStack'[i].type = formStack[i].type
                  /\ SameField(formStack'[i], formStack[i], "item")

C10_Current ==
  currentForm = IF formStack = <<>> THEN UndefinedForm ELSE formStack[Len(formStack)]

C10_SubFormPushed ==
  /\ Len(formStack') = Len(formStack) + 1
  /\ formStack'[Len(formStack')].type = lastOp'.type

C10_Step(subFormOpened) ==
  LET n == Len(formStack)
      popped == /\ Len(formStack') = IF n = 0 THEN 0 ELSE n - 1
                /\ BelowUnchanged(Len(formStack'))
  IN CASE lastOp'.op \in {"openCreateForm", "openEditForm"} ->
            Len(formStack') = 1 /\ formStack'[1].type = lastOp'.type
       [] lastOp'.op = "openSubCreateForm" -> subFormOpened
       [] lastOp'.op = "cancelForm" -> popped
       [] lastOp'.op = "saveForm" /\ lastOp'.ok -> n > 0 /\ popped
       [] OTHER -> TRUE

C12_ImportAtomicOnFailure ==
  [][lastOp'.op = "importData" =>
       /\ lastOp'.ok \in BOOLEAN
       /\ ~lastOp'.ok =>
            /\ ds' = ds
            /\ language' = language
            /\ localStorage' = localStorage
            /\ isLocked' = isLocked]_vars

\* An import has failed on a state that differs from the defaults
C12_Witness ==
  /\ lastOp.op = "importData"
  /\ ~lastOp.ok
  /\ lastOp.json = InvalidJsonText
  /\ ds.theme = "dark"
  /\ ds.lockSettings.isEnabled
  /\ ds.customEmojis # <<>>

\* C15: disabling the lock unlocks at once: when lockSettings.isEnabled
\* becomes false (switch in the settings, import, reset to defaults) the lock
\* effect sets isLocked to false, so in every settled state isLocked implies
\* lockSettings.isEnabled.
C15_LockedImpliesEnabled == isLocked => ds.lockSettings.isEnabled

\* A backup without lock was imported into the locked app: it is unlocked
C15_Witness ==
  /\ lastOp.op = "importData"
  /\ lastOp.ok
  /\ lastOp.wasLocked
  /\ lastOp.before.isEnabled
  /\ ~ds.lockSettings.isEnabled
  /\ ~isLocked

\* C16: from the first start (lock disabled, no PIN), through toggleLock,
\* openPinModal, savePin, closePinModal, updateTimeout, confirmImport and
\* confirmReset, an enabled lock has a PIN that is a string of exactly 4
\* characters, the length the lock screen accepts; and savePin with a PIN of
\* another length or with a confirmation that differs changes neither the
\* PIN nor isEnabled.
C16_EnabledLockHasPin ==
  /\ [](ds.lockSettings.isEnabled =>
          ds.lockSettings.pin # Null /\ Len(ds.lockSettings.pin) = 4)
  /\ [][(lastOp'.op = "savePin" /\ ~lastOp'.ok) =>
          /\ ds'.lockSettings.pin = ds.lockSettings.pin
          /\ ds'.lockSettings.isEnabled = ds.lockSettings.isEnabled]_vars

\* savePin has refused an entry while the lock was enabled with a PIN
C16_Witness ==
  /\ lastOp.op = "savePin"
  /\ ~lastOp.ok
  /\ showPinModal
  /\ ds.lockSettings.isEnabled
  /\ ds.lockSettings.pin = "1234"

(***************************************************************************)
(* Specification of the biometric unlock: the lock screen asks for a       *)
(* biometric verification, whose prompt takes the focus from the app and   *)
(* gives it back, while the user leaves and reopens the app as well.       *)
(***************************************************************************)
NextBiometrics ==
  \/ \E timeout \in TimeoutOptions : UpdateTimeout(timeout)
  \/ Tick(LockTick, MaxBackground)
  \/ \E isAvailable \in BOOLEAN : BiometricsAvailability(isAvailable)
  \/ AppBackground
  \/ HandleAppResume
  \/ \E pin \in LockScreenPins : CheckPin(pin)
  \/ VerifyWithBiometrics
  \/ BiometricsVerified
  \/ BiometricsFailed
  \/ DialogInactive
  \/ DialogActive

SpecBiometrics == InitDevice /\ [][NextBiometrics]_vars

\* C13: while isVerifyingBiometrics is true a resume event does not lock the
\* app (handleAppResume leaves isLocked as it is), and the flag is false
\* again when verifyWithBiometrics has finished, whether the verification
\* succeeded or was rejected (failed or cancelled).
C13_VerifyingGuardsResume ==
  [][ /\ (lastOp'.op \in {"handleAppResume", "dialogActive"} /\ isVerifyingBiometrics)
          => isLocked' = isLocked
      /\ lastOp'.op \in {"biometricsVerified", "biometricsFailed"}
          => ~isVerifyingBiometrics' ]_vars

\* The prompt gave the focus back while the verification was in progress,
\* after a stay in the background of at least the timeout: the app that was
\* unlocked by PIN is still unlocked.
C13_Witness ==
  /\ lastOp.op = "dialogActive"
  /\ isVerifyingBiometrics
  /\ ds.lockSettings.isEnabled
  /\ backgroundedAt # 0
  /\ now - backgroundedAt >= ds.lockSettings.timeout
  /\ ~isLocked

\* C14: a successful biometric unlock is not undone by the events of the
\* prompt itself: when verifyWithBiometrics has returned true and unlocked
\* the app, the resume event of the prompt that reaches the app afterwards
\* leaves it unlocked, for every timeout.
C14_UnlockNotUndone ==
  [][ (lastOp'.op = "dialogActive" /\ dialog = "verified" /\ ~isLocked) => ~isLocked' ]_vars

(***************************************************************************)
(* Specification of the diary and of the entities it copies: entries are   *)
(* written with the moods, effects and dosages of the time, and these are  *)
(* then edited and deleted on the settings page.                           *)
(***************************************************************************)
CopiedTypes == {"Mood", "Effect", "Dosage"}
UpdateTexts == {"b"}

AddCopiedItem ==
  \E type \in CopiedTypes, txt \in NewTexts :
    AddItem(CollectionOf(type), SimpleItem(CollectionOf(type), txt), {})

\* handleUpdate's updateItem on a mood, effect or dosage
UpdateCopiedItem ==
  \E type \in CopiedTypes, txt \in UpdateTexts :
    \E i \in Range(ds[CollectionOf(type)]) :
      /\ CommitWith(UpdateItemFn(ds, CollectionOf(type),
                                 Spread(SimpleItem(CollectionOf(type), txt), [id |-> i.id])),
                    language, {}, [op |-> "updateItem", ok |-> TRUE, type |-> type])
      /\ UNCHANGED <<idCount, restVars>>

\* confirmDeleteItem's deleteItem on a mood, effect or dosage
DeleteCopiedItem ==
  \E type \in CopiedTypes :
    \E id \in Ids(ds[CollectionOf(type)]) :
      /\ CommitWith(DeleteItemFn(ds, type, id), language, {},
                    [op |-> "deleteItem", ok |-> TRUE, type |-> type])
      /\ UNCHANGED <<idCount, restVars>>

NextHistory ==
  \/ AddCopiedItem
  \/ AddDiaryEntry
  \/ UpdateCopiedItem
  \/ DeleteCopiedItem

SpecHistory == InitWeb /\ [][NextHistory]_vars

\* C11: diary entries hold copies of mood, effects and dosage, so updateItem
\* and deleteItem on a Mood, Effect or Dosage leave the list of diary
\* entries as it was: every entry keeps its mood, effects and dosage.
C11_HistoricalIntegrity ==
  [][lastOp'.op \in {"updateItem", "deleteItem"} => ds'.diaryEntries = ds.diaryEntries]_vars

\* A mood was deleted and an entry still holds its copy, or a mood was
\* edited and an entry still holds the values it had.
C11_Witness ==
  /\ lastOp.op \in {"updateItem", "deleteItem"}
  /\ lastOp.type = "Mood"
  /\ \E e \in Range(ds.diaryEntries) :
       /\ Has(e, "mood")
       /\ e.mood \notin Range(ds.moods)
       /\ e.effects # <<>>

\* The collections of DataService
DataCollections ==
  {"moods", "effects", "symptoms", "activities", "manufacturers", "dosages",
   "activeIngredients", "preparations", "ingredients", "diaryEntries", "reminders",
   "customEmojis"}

\* The collection c has got exactly one item, at its end
OneItemAdded(c) ==
  /\ Len(ds'[c]) = Len(ds[c]) + 1
  /\ SubSeq(ds'[c], 1, Len(ds[c])) = ds[c]

C17_Step ==
  LET form == currentForm
      topRemoved == formStack # <<>> /\ Len(formStack') = Len(formStack) - 1
  IN lastOp'.op = "saveForm" =>
       /\ ~lastOp'.ok =>
            /\ formStack' = formStack
            /\ forms' = forms
            /\ ds' = ds
            /\ lastOp'.onSave = <<>>
       /\ (lastOp'.ok /\ ~Has(form, "item")) =>
            /\ \E c \in DataCollections :
                 /\ OneItemAdded(c)
                 /\ \A k \in (DOMAIN ds) \ {c} : ds'[k] = ds[k]
                 /\ lastOp'.onSave =
                      IF Has(form, "onSave") THEN <<ds'[c][Len(ds'[c])]>> ELSE <<>>
            /\ topRemoved
       /\ (lastOp'.ok /\ Has(form, "item")) =>
            /\ \A k \in (DOMAIN ds) \ DataCollections : ds'[k] = ds[k]
            /\ \A c \in DataCollections :
                 /\ Len(ds'[c]) = Len(ds[c])
                 /\ \A i \in 1..Len(ds[c]) :
                      ds'[c][i] # ds[c][i] =>
                        c = CollectionOf(form.type) /\ ds[c][i].id = form.item.id
            /\ lastOp'.onSave = <<>>
            /\ topRemoved

\* C17: saveForm is all or nothing.  When the validation of the current form
\* fails, the form stack with the parent form, the form values and every
\* collection are as before and onSave is not called; when a create
\* succeeds, exactly one item is added to exactly one collection, onSave (if
\* the form has one) is called exactly once, with that item, and the top
\* form is removed; when an update succeeds, every collection keeps its
\* size, only the item with the edited id changes, and the top form is
\* removed.
C17_SaveAllOrNothing == [][C17_Step]_vars

\* A create of a form that has an onSave callback has succeeded
C17_Witness ==
  /\ lastOp.op = "saveForm"
  /\ lastOp.ok
  /\ Len(lastOp.onSave) = 1
  /\ lastOp.onSave[1] \in Range(ds.preparations)
  /\ formStack = <<>>

\* The field of the Preparation form that refers to an entity of a type
ParentField(type) ==
  CASE type = "Manufacturer" -> "manufacturerId"
    [] type = "ActiveIngredient" -> "activeIngredientId"
    [] type = "Dosage" -> "dosageId"

\* A sub-form of a Preparation form is on top of the stack
C18_InSubForm(stack) ==
  /\ Len(stack) >= 2
  /\ stack[Len(stack) - 1].type = "Preparation"
  /\ stack[Len(stack)].type \in {"Manufacturer", "ActiveIngredient", "Dosage"}

C18_Step ==
  LET n == Len(formStack)
      entered == formStack[n - 1].formValues
      created == ds'[CollectionOf(currentForm.type)]
  IN
  \* opening: the parent entry holds what the user has entered
  /\ (/\ lastOp'.op = "openSubCreateForm"
      /\ lastOp'.ok
      /\ currentForm.type = "Preparation") =>
        /\ C18_InSubForm(formStack')
        /\ formStack'[n].formValues = forms["Preparation"]
  \* while the sub-form stays open, the parent entry is kept
  /\ (C18_InSubForm(formStack) /\ Len(formStack') = n) =>
        formStack'[n - 1] = formStack[n - 1]
  \* saving: back in the parent, with the entered values and the new id
  /\ (C18_InSubForm(formStack) /\ lastOp'.op = "saveForm" /\ lastOp'.ok) =>
        /\ Len(formStack') = n - 1
        /\ formStack'[n - 1].type = "Preparation"
        /\ forms'["Preparation"] = formStack'[n - 1].formValues
        /\ forms'["Preparation"] =
             Spread(entered,
                    ParentField(currentForm.type) :> created[Len(created)].id)
  \* cancelling: back in the parent, with the entered values
  /\ (C18_InSubForm(formStack) /\ lastOp'.op = "cancelForm") =>
        /\ Len(formStack') = n - 1
        /\ formStack'[n - 1].type = "Preparation"
        /\ forms'["Preparation"] = entered

\* C18: creating a sub-entity from within a Preparation form returns to the
\* parent with nothing lost.  openSubCreateForm puts the values entered into
\* the Preparation form on the stack, they stay there while the sub-form is
\* open, and a successful saveForm of the Manufacturer, ActiveIngredient or
\* Dosage sub-form makes the Preparation form the top again, its form values
\* being the entered ones but for manufacturerId, activeIngredientId or
\* dosageId, which is the id of the created entity; cancelForm makes them
\* the entered ones unchanged.
C18_SubFormReturnsToParent == [][C18_Step]_vars

\* A manufacturer was created from within a Preparation form that had a name
C18_Witness ==
  /\ lastOp.op = "saveForm"
  /\ lastOp.ok
  /\ lastOp.type = "Manufacturer"
  /\ formStack # <<>>
  /\ Last(formStack).type = "Preparation"
  /\ Has(forms["Preparation"], "name")
  /\ Has(forms["Preparation"], "manufacturerId")
  /\ forms["Preparation"].manufacturerId = Last(ds.manufacturers).id

C19_Step ==
  (lastOp'.op = "openSubCreateForm" /\ lastOp'.ok) =>
    /\ Len(formStack') = Len(formStack) + 1
    /\ formStack'[Len(formStack)].type = currentForm.type
    /\ formStack'[Len(formStack)].formValues = forms[currentForm.type]

\* C19: openSubCreateForm saves the state of the current form.  For every
\* type of the current form, the stack entry of the parent after
\* openSubCreateForm holds the values that the form signal of that type had
\* when the sub-form was opened.
C19_ParentStateSaved == [][C19_Step]_vars

(***************************************************************************)
(* Specification of the forms of the reference lists: created and edited   *)
(* with texts that differ in case and in surrounding blanks only.          *)
(***************************************************************************)
\* One type for each of the validations: those of Effect, Symptom and Activity
\* are that of Mood
DescribedTypes == {"Mood", "Effect", "Symptom", "Activity"}
ReferenceTypes == {"Mood", "Manufacturer", "Dosage", "ActiveIngredient"}

ReferenceInputs(type) ==
  CASE type \in DescribedTypes ->
         {[emoji |-> "x", description |-> d] : d \in {" a", "A", "gut", " "}}
    [] type = "Manufacturer" -> {[name |-> n] : n \in {" a", "A", "b", " "}}
    [] type = "Dosage" ->
         {[amount |-> 10, unit |-> "mg"], [amount |-> 10, unit |-> "MG"],
          [amount |-> 20, unit |-> "mg"], [amount |-> 20, unit |-> " "]}
    [] type = "ActiveIngredient" ->
         {[amount |-> " a", unit |-> "mg"], [amount |-> "A", unit |-> "MG"],
          [amount |-> "A", unit |-> " "]}
    [] OTHER -> {}

NextReference ==
  \/ \E type \in ReferenceTypes : OpenCreateForm(type, FALSE)
  \/ \E type \in ReferenceTypes :
       \E item \in Range(ds[CollectionOf(type)]) : OpenEditForm(type, item)
  \/ \E values \in ReferenceInputs(currentForm.type) : EditForm(values)
  \/ CancelForm
  \/ SaveForm

SpecReference == InitWeb /\ [][NextReference]_vars

\* No two items of a list agree in Key, and every text of Texts is trimmed
\* and not empty
DuplicateFree(items, Key(_), Texts(_)) ==
  /\ \A i, j \in 1..Len(items) : i # j => Key(items[i]) # Key(items[j])
  /\ \A i \in 1..Len(items) : \A t \in Texts(items[i]) : t # "" /\ Trim(t) = t

C20_DescriptionKey(m) == ToLowerCase(m.description)
C20_DescriptionTexts(m) == {m.description}
C20_NameKey(m) == ToLowerCase(m.name)
C20_NameTexts(m) == {m.name}
C20_DosageKey(d) == <<d.amount, ToLowerCase(d.unit)>>
C20_DosageTexts(d) == {d.unit}
C20_IngredientKey(ai) == <<ToLowerCase(ai.amount), ToLowerCase(ai.unit)>>
C20_IngredientTexts(ai) == {ai.unit}

\* C20: the duplicate validation keeps the reference lists free of
\* duplicates.  After any sequence of saveForm creates and updates no two
\* moods, effects, symptoms or activities have descriptions that are equal
\* ignoring case, no two manufacturers have names equal ignoring case, no two
\* dosages have the same amount and units equal ignoring case, no two active
\* ingredients have amounts and units equal ignoring case, and every stored
\* description, name and unit is trimmed and not empty.
C20_ReferenceListsDuplicateFree ==
  /\ \A c \in {"moods", "effects", "symptoms", "activities"} :
       DuplicateFree(ds[c], C20_DescriptionKey, C20_DescriptionTexts)
  /\ DuplicateFree(ds.manufacturers, C20_NameKey, C20_NameTexts)
  /\ DuplicateFree(ds.dosages, C20_DosageKey, C20_DosageTexts)
  /\ DuplicateFree(ds.activeIngredients, C20_IngredientKey, C20_IngredientTexts)

\* A second manufacturer was saved next to one whose name was typed with a
\* blank or a capital, and a mood was added to the default one
C20_Witness ==
  /\ lastOp.op = "saveForm"
  /\ lastOp.ok
  /\ lastOp.type = "Manufacturer"
  /\ Len(ds.manufacturers) = 2
  /\ \E m \in Range(ds.manufacturers) : ToLowerCase(m.name) = "a"
  /\ Len(ds.moods) = 2

(***************************************************************************)
(* Specification of the diary entry form: entries are added and edited     *)
(* while moods are deleted in the settings and preparations are created    *)
(* from within the form.                                                   *)
(***************************************************************************)
DosageAmounts == Opt("formDosageAmount", {10})
DosageUnits == {"", " ", "mg"}
SearchTexts == {<<>>, <<"zz">>}

\* confirmDeleteItem on a mood
DeleteMood ==
  \E id \in Ids(ds.moods) :
    /\ CommitWith(DeleteItemFn(ds, "Mood", id), language, {},
                  [op |-> "deleteItem", ok |-> TRUE, type |-> "Mood"])
    /\ UNCHANGED <<idCount, restVars>>

NextDiary ==
  \/ AddEntry
  \/ \E entry \in Range(ds.diaryEntries) : EditEntry(entry)
  \/ \E id \in Ids(ds.moods) : SelectMood(id)
  \/ \E prep \in Range(ds.preparations) : SelectPreparation(prep)
  \/ \E value \in SearchTexts : OnPreparationInput(value)
  \/ \E amount \in DosageAmounts, unit \in DosageUnits : EnterDosage(amount, unit)
  \/ OpenCreatePreparationForm
  \/ EditForm([name |-> " a"])
  \/ SaveForm
  \/ DiarySave
  \/ DeleteMood

SpecDiary == InitWeb /\ [][NextDiary]_vars

\* The entries that a step has added or changed
C21_Written == {e \in Range(ds'.diaryEntries) : e \notin Range(ds.diaryEntries)}

C21_Step ==
  LET f == diaryForm
      amount == Has(f, "formDosageAmount")
      unit == Trim(f.formDosageUnit) # ""
  IN lastOp'.op = "save" =>
       /\ \A e \in C21_Written :
            /\ Has(e, "mood") \/ Has(e, "preparationId")
            /\ Has(e, "dosage") <=> (amount /\ unit)
       /\ lastOp'.ok => ~diaryForm'.open
       /\ ~lastOp'.ok => ds' = ds /\ diaryForm' = diaryForm
       /\ (amount # unit) => ~lastOp'.ok
       /\ (~Has(DiaryEntryOf(ds, f, Trim(f.formDosageUnit)), "mood")
           /\ ~Has(f, "formPreparationId")) => ~lastOp'.ok

\* C21: the diary entry form requires a mood or a preparation.  save never
\* adds or updates an entry that has neither a mood nor a preparationId, also
\* when the mood selected in the form has been deleted in the settings: it
\* leaves the form open and diaryEntries unchanged instead; and a stored
\* entry has a dosage exactly when both the amount and a unit that is not
\* blank were entered, one of the two alone being rejected without saving.
C21_MoodOrPreparationRequired == [][C21_Step]_vars

(***************************************************************************)
(* Specification of the statistics: a diary grows on a device that holds   *)
(* more preparations than the statistics list.                             *)
(***************************************************************************)
MaxEntries == 7
StatPreparations == [i \in 1..(TopCount + 1) |-> [id |-> i, name |-> "p"]]
\* An entry of a deleted preparation that a backup has brought, and one
\* without a preparation
StatEntries ==
  << [id |-> 8, datetime |-> "2024-01-01T08:00:00.000Z", preparationId |-> 9,
      effects |-> <<>>, note |-> ""],
     [id |-> 9, datetime |-> "2024-01-01T08:00:00.000Z", mood |-> Head(DefaultMoods("de")),
      effects |-> <<>>, note |-> ""] >>
StatStorage ==
  (StorageKey :>
     SaveToLocalStorage([ResetToDefaultsFn("de") EXCEPT
                           !.preparations = StatPreparations,
                           !.diaryEntries = StatEntries]))
  @@ (LangKey :> "de")

InitStatistics ==
  /\ Construct(StatStorage, "de", FALSE, "denied")
  /\ now = NowStart
  /\ idCount = 0

\* The preparations that entries refer to
UsedPreparations(entries) ==
  {entries[i].preparationId : i \in {k \in 1..Len(entries) : Has(entries[k], "preparationId")}}

\* save adds an entry with a preparation, the entries being written in the
\* order of their dates.  The statistics do not depend on which preparation
\* has which id, so a preparation that is used for the first time is the
\* first of the list that was not used before
AddStatEntry(prepId, datetime) ==
  /\ Len(ds.diaryEntries) < Len(StatEntries) + MaxEntries
  /\ datetime = EarlierDate => \A e \in Range(ds.diaryEntries) : e.datetime # RecentDate
  /\ \A id \in Ids(ds.preparations) :
       id < prepId => id \in UsedPreparations(ds.diaryEntries)
  /\ Commit(AddItemFn(ds, "diaryEntries",
                      [datetime |-> datetime, preparationId |-> prepId,
                       effects |-> <<>>, note |-> ""],
                      GenerateId),
            language, {}, "data", TRUE)
  /\ idCount' = idCount + 1
  /\ UNCHANGED restVars

NextStatistics ==
  \E prepId \in Ids(ds.preparations), datetime \in {RecentDate, EarlierDate} :
    AddStatEntry(prepId, datetime)

SpecStatistics == InitStatistics /\ [][NextStatistics]_vars

DateFilters == {"all", "7d", "30d"}
YearFilters == {"all", "2023", "2024"}

\* The entries that the filters let pass: those of the year if a year is
\* set, else those of the last days
C22_Filtered(dateF, yearF) ==
  {i \in 1..Len(ds.diaryEntries) :
     LET e == ds.diaryEntries[i] IN
     IF yearF # "all" THEN GetFullYear(e.datetime) = yearF
     ELSE \/ dateF = "all"
          \/ dateF = "7d" /\ DaysAgoAtMost(now - DateNumber(e.datetime), 7)
          \/ dateF = "30d" /\ DaysAgoAtMost(now - DateNumber(e.datetime), 30)}

C22_Count(prepId, dateF, yearF) ==
  Cardinality({i \in C22_Filtered(dateF, yearF) :
                 /\ Has(ds.diaryEntries[i], "preparationId")
                 /\ ds.diaryEntries[i].preparationId = prepId})

\* C22: topPreparations returns the most used preparations of the filtered
\* entries.  For every setting of the two filters it has at most 5
\* elements, in non-increasing order of count, each of a preparation that
\* exists, no preparation twice, each count being the number of filtered
\* entries with that preparationId, and no preparation that exists is left
\* out that has a higher count than a listed one; with a year set the
\* result does not depend on the relative date filter.
C22_TopPreparations ==
  \A dateF \in DateFilters, yearF \in YearFilters :
    LET top == TopPreparations(ds, dateF, yearF, now)
        listed == {top[i].prep.id : i \in 1..Len(top)}
    IN /\ Len(top) <= 5
       /\ \A i, j \in 1..Len(top) : i < j => top[i].count >= top[j].count
       /\ \A i, j \in 1..Len(top) : i # j => top[i].prep.id # top[j].prep.id
       /\ \A i \in 1..Len(top) :
            /\ top[i].prep \in Range(ds.preparations)
            /\ top[i].count = C22_Count(top[i].prep.id, dateF, yearF)
            /\ top[i].count > 0
       /\ \A id \in Ids(ds.preparations) \ listed :
            \A i \in 1..Len(top) : C22_Count(id, dateF, yearF) <= top[i].count
       /\ Ids(ds.preparations) \ listed # {} /\ Len(top) < 5 =>
            \A id \in Ids(ds.preparations) \ listed : C22_Count(id, dateF, yearF) = 0
       /\ yearF # "all" => top = TopPreparations(ds, "all", yearF, now)

\* Six preparations are in use; the one used last is used twice and heads
\* the list, and the filter of the last 7 days gives another list
C22_Witness ==
  LET top == TopPreparations(ds, "all", "all", now) IN
  /\ Cardinality(UsedPreparations(ds.diaryEntries) \cap Ids(ds.preparations)) = 6
  /\ Len(top) = 5
  /\ top[1].prep.id = 6
  /\ top[1].count = 2
  /\ TopPreparations(ds, "7d", "all", now) # top
  /\ TopPreparations(ds, "all", "2023", now) # <<>>

(***************************************************************************)
(* Specification of the web reminders: a browser with the permission       *)
(* granted holds two reminders, while a week and a day pass.               *)
(***************************************************************************)
WebTick == 12 * 3600 * 1000
MaxWebTime == 8 * DayMs
\* Thursday, 00:22:00
WebStart == NowStart + 24000

WebTimes == {"00:22", "12:00", "23:59"}
\* Sunday, Thursday and Saturday: every difference of weekdays from -6 to 6
\* occurs in the course of a week
WebDays == {<<1>>, <<5>>, <<7>>}
WebStorage(time, days) ==
  (StorageKey :>
     SaveToLocalStorage([ResetToDefaultsFn("de") EXCEPT
                           !.reminders = <<[id |-> 1, time |-> time, days |-> days],
                                           [id |-> 2, time |-> "12:00", days |-> <<5, 6>>]>>]))
  @@ (LangKey :> "de")

InitWebReminders ==
  /\ now = WebStart
  /\ idCount = 0
  /\ \E time \in WebTimes, days \in WebDays :
       Construct(WebStorage(time, days), "de", FALSE, "granted")

\* A timer that has fired has not been followed by its sync yet
ResyncAwaited ==
  \E i \in 1..Len(webTimeoutIds) :
    /\ webTimeoutIds[i].fired
    /\ now < webTimeoutIds[i].setAt + webTimeoutIds[i].delay + 1000

\* The clock moves to the next half day after the start, or by a second
\* when a sync is awaited
NextWebReminders ==
  \/ Tick(WebTick - ((now - WebStart) % WebTick), MaxWebTime)
  \/ ResyncAwaited /\ Tick(1000, MaxWebTime)
  \/ WebTimerFires
  \/ WebResync
  \/ Restart
  \/ DeleteReminder

SpecWebReminders == InitWebReminders /\ [][NextWebReminders]_vars

\* The time of the day of a reminder time, in milliseconds
C23_TimeOfDay(time) == (ParseTime(time)[1] * 60 + ParseTime(time)[2]) * 60000

C23_NextOccurrence(timer) ==
  LET at == timer.setAt + timer.delay IN
  /\ timer.delay > 0
  /\ timer.delay <= 7 * DayMs
  /\ GetDay(at) = timer.weekday - 1
  /\ at % DayMs = C23_TimeOfDay(timer.time)
  /\ (/\ GetDay(timer.setAt) = timer.weekday - 1
      /\ timer.setAt % DayMs >= C23_TimeOfDay(timer.time)) =>
       at = (timer.setAt \div DayMs) * DayMs + 7 * DayMs + C23_TimeOfDay(timer.time)

C23_Timers ==
  /\ \A i \in 1..Len(webTimeoutIds) : C23_NextOccurrence(webTimeoutIds[i])
  /\ \A i, j \in 1..Len(webTimeoutIds) :
       (/\ i # j
        /\ webTimeoutIds[i].reminderId = webTimeoutIds[j].reminderId
        /\ webTimeoutIds[i].weekday = webTimeoutIds[j].weekday) =>
         webTimeoutIds[i].fired \/ webTimeoutIds[j].fired

\* A sync leaves the timers it has set itself, one for each weekday of each
\* reminder, and none of an earlier sync
C23_SyncStep ==
  lastOp'.op \in {"syncNotifications", "start", "data"} =>
    /\ \A i \in 1..Len(webTimeoutIds') :
         webTimeoutIds'[i].setAt = now' /\ ~webTimeoutIds'[i].fired
    /\ \A i, j \in 1..Len(webTimeoutIds') :
         i # j => <<webTimeoutIds'[i].reminderId, webTimeoutIds'[i].weekday>>
                  # <<webTimeoutIds'[j].reminderId, webTimeoutIds'[j].weekday>>
    /\ \A r \in Range(ds'.reminders) : \A d \in Range(r.days) :
         \E i \in 1..Len(webTimeoutIds') :
           webTimeoutIds'[i].reminderId = r.id /\ webTimeoutIds'[i].weekday = d

====
